---- MODULE Spec2Model ----
\* Verification model of the phi-engine kernel: the D-space transform
\* (core.py), the analyzers (analyzer.py) and the PhiEngine facade
\* (engine.py).
\*
\* Every kernel operation is a pure function.  The state machine applies
\* one operation at a time to an input drawn from a bounded set: op is
\* the operation called, arg its argument and ret what it returned or
\* raised.
\*
\* Floating point.  Python floats are IEEE-754 doubles.  The model keeps
\* the RANGE of a double exactly and does not model rounding: a finite
\* non-zero float is sgn times a power tp of 2 pi times a power e of two,
\* so the inputs are the doubles that are powers of two (sub-normals
\* included), and a dimension coordinate is the real number
\* n ln(2) / ln(PHI), kept as the integer n.  On this grid the logarithm,
\* the power of PHI, the reciprocal and the product with 2 pi are exact,
\* and what is left of the float semantics is overflow (inf from division
\* and multiplication, OverflowError from the power operator), underflow
\* to 0.0 and the domain errors of log and of division.  Two different
\* grid values differ by more than 0.25, so a tolerance test
\* abs(a - b) < 1e-10 holds on the grid exactly when a = b.
EXTENDS Integers, Sequences, FiniteSets, TLC

VARIABLES pc, op, arg, ret, tables, log, db, constants_of, held, edits,
          adapters, registrations, calls,
          users, today, performed, payments, webhook

\* the state of a PhiEngine and of the calls it makes
engine_vars == <<adapters, registrations, calls>>

\* the state of the demo: the user_metadata and payments tables, the calendar
\* day, and the webhook server
demo_vars == <<users, today, performed, payments, webhook>>
vars == <<pc, op, arg, ret, tables, log, db, constants_of, held, edits, engine_vars, demo_vars>>

\* ----------------------------------------------------------------
\* Bounds of the model.
MaxLen == 2        \* longest list of floats handed to the facade
MaxN == 1100       \* largest integer handed to the decomposer
NegN == 3          \* the decomposer is handed integers from -NegN on
MaxDen == 8        \* largest denominator in a list to rank
MaxRankLen == 3    \* longest list of denominators to rank
Unit == 2          \* sum-rule numbers are multiples of 1/Unit
MaxCoef == 4       \* largest coefficient, in units
NegCoef == 2       \* coefficients go from -NegCoef on, in units
MaxCoefLen == 4    \* longest coefficient list
MaxExpected == 6   \* largest expected sum, in units
MaxHi == 1         \* doubles lie around multiples of 2^53 up to MaxHi times
MaxLo == 2         \* and within MaxLo of such a multiple
MaxWideLen == 2    \* longest list of such doubles
MaxReadings == 3   \* longest list of readings of a calibration payload
MaxSensors == 2    \* most sensors of a fusion payload
MaxSensorReadings == 2  \* longest list of readings of one sensor
MaxSteps == 2      \* longest list of steps of a cascade payload
MaxCandidates == 2 \* longest list of candidates of a filter payload
MaxRuns == 3       \* most runs of the engine in one behaviour
MaxBest == 15      \* largest n handed to best_predictions
NegBest == 1       \* best_predictions is handed n from -NegBest on
MaxCompared == 1   \* most values handed to validate_against
MaxInstances == 2  \* most ConstantsDB instances
MaxEdits == 2      \* most writes of the caller to what it was handed
MaxSeqArg == 20    \* largest index handed to fib and lucas
NegSeqArg == 2     \* fib and lucas are handed indices from -NegSeqArg on
MaxMirrorLen == 2  \* longest list handed to mirror_symmetry
MaxRegistrations == 3  \* most calls of register_adapter on one engine
MaxAdapterObjects == 2 \* most adapter objects of one class
MaxDays == 2       \* calendar days the demo is followed over
MaxLogged == 12    \* most operations the demo's button handlers complete
MaxPayments == 2   \* most rows of the payments table

\* ----------------------------------------------------------------
\* IEEE-754 binary64 range, as used by CPython's float.
DBL_MAX_EXP == 1023      \* largest e with 2^e finite
DBL_MIN_EXP == 0 - 1074  \* smallest e with 2^e non-zero (sub-normal)

\* ----------------------------------------------------------------
\* Outcomes of a call: a returned value or a raised exception.
Ok(v) == [raised |-> FALSE, val |-> v]
Raise(kind) == [raised |-> TRUE, exc |-> kind]
\* the empty dict {}
EmptyDict == [x \in {} |-> x]
\* data.get(key, default)
GetOr(data, key, default) == IF key \in DOMAIN data THEN data[key] ELSE default

\* ----------------------------------------------------------------
\* Floats.
FZero == [k |-> "zero"]
FInf(s) == [k |-> "inf", sgn |-> s]
FFin(s, t, x) == [k |-> "fin", sgn |-> s, tp |-> t, e |-> x]
\* sgn * (2*pi)^t * 2^x after range reduction: 2*pi = 1.57.. * 2^2
FRange(s, t, x) ==
    IF x + 2 * t > DBL_MAX_EXP THEN FInf(s)
    ELSE IF x + 2 * t < DBL_MIN_EXP THEN FZero
    ELSE FFin(s, t, x)
Pow2(x) == FFin(1, 0, x)
FOne == Pow2(0)
FIsPositive(x) == (x.k = "inf" /\ x.sgn = 1) \/ (x.k = "fin" /\ x.sgn = 1)
\* x <= 0
FLeqZero(x) == ~FIsPositive(x)

\* Dimension coordinates: n stands for n * ln 2 / ln PHI
DFin(n) == [k |-> "fin", n |-> n]
DInf(s) == [k |-> "inf", sgn |-> s]
DNeg(d) == IF d.k = "fin" THEN DFin(0 - d.n) ELSE DInf(0 - d.sgn)
DAdd(a, b) ==
    IF a.k = "fin" /\ b.k = "fin" THEN DFin(a.n + b.n)
    ELSE IF a.k = "fin" THEN b
    ELSE IF b.k = "fin" THEN a
    ELSE IF a.sgn = b.sgn THEN a
    ELSE [k |-> "nan"]
\* abs(d) < 1e-10
DWithinTol(d) == d.k = "fin" /\ d.n = 0

\* math.log(x) / log(PHI), in dimension units
FLog(x) ==
    IF x.k = "zero" \/ x.sgn < 0 THEN Raise("ValueError")
    ELSE IF x.k = "inf" THEN Ok(DInf(1))
    ELSE Ok(DFin(x.e))

\* 1.0 / x
FRecip(x) ==
    IF x.k = "zero" THEN Raise("ZeroDivisionError")
    ELSE IF x.k = "inf" THEN Ok(FZero)
    ELSE Ok(FRange(x.sgn, 0 - x.tp, 0 - x.e))

\* PHI ** d : float_pow raises OverflowError when the result overflows.
\* At n = DBL_MAX_EXP + 1 the exponent held by the double d is rounded and
\* the power comes out as the largest finite double, a hair under 2^1024.
FPowPhi(d) ==
    IF d.k = "inf" THEN (IF d.sgn > 0 THEN Ok(FInf(1)) ELSE Ok(FZero))
    ELSE IF d.n > DBL_MAX_EXP + 1 THEN Raise("OverflowError")
    ELSE IF d.n = DBL_MAX_EXP + 1 THEN Ok(FFin(1, 0, d.n))
    ELSE Ok(FRange(1, 0, d.n))

\* a * b
FMul(a, b) ==
    IF a.k = "zero" \/ b.k = "zero"
    THEN (IF a.k = "inf" \/ b.k = "inf" THEN [k |-> "nan"] ELSE FZero)
    ELSE IF a.k = "inf" \/ b.k = "inf" THEN FInf(a.sgn * b.sgn)
    ELSE FRange(a.sgn * b.sgn, a.tp + b.tp, a.e + b.e)

TwoPi == FFin(1, 1, 0)
\* abs(a - b) < 1e-10
FWithinTol(a, b) == a.k = "fin" /\ b.k = "fin" /\ a = b

\* ----------------------------------------------------------------
\* core.py, layer 2: the transforms.
D(x) ==
    IF FLeqZero(x) THEN Raise("ValueError")
    ELSE LET l == FLog(x) IN
         IF l.raised THEN l ELSE Ok(DNeg(l.val))

x_from_D(d) ==
    LET p == FPowPhi(d) IN
    IF p.raised THEN p ELSE FRecip(p.val)

Theta(x) == FMul(TwoPi, x)

Energy(x) ==
    LET d == D(x) IN
    IF d.raised THEN d
    ELSE LET p == FPowPhi(d.val) IN
         IF p.raised THEN p ELSE Ok(FMul(p.val, Theta(x)))

\* ----------------------------------------------------------------
\* analyzer.py: ConsistencyChecker.
\* d_space_closure without the test x <= 0
d_space_closure_unguarded(x) ==
    LET d_x == D(x)
        inv == FRecip(x)
    IN IF d_x.raised THEN d_x
       ELSE IF inv.raised THEN inv
       ELSE LET d_inv == D(inv.val) IN
            IF d_inv.raised THEN d_inv
            ELSE Ok([valid |-> DWithinTol(DAdd(d_x.val, d_inv.val)), D_x |-> d_x.val,
                     D_inv_x |-> d_inv.val, residual |-> DAdd(d_x.val, d_inv.val)])

d_space_closure(x) ==
    IF FLeqZero(x) THEN Ok([valid |-> FALSE, error |-> "x must be > 0"])
    ELSE LET d_x == D(x)
             inv == FRecip(x)
         IN IF d_x.raised THEN d_x
            ELSE IF inv.raised THEN inv
            ELSE LET d_inv == D(inv.val) IN
                 IF d_inv.raised THEN d_inv
                 ELSE LET residual == DAdd(d_x.val, d_inv.val) IN
                      Ok([valid |-> DWithinTol(residual), D_x |-> d_x.val,
                          D_inv_x |-> d_inv.val, residual |-> residual])

energy_conservation(x) ==
    IF FLeqZero(x) THEN Ok([valid |-> FALSE, error |-> "x must be > 0"])
    ELSE LET e == Energy(x) IN
         IF e.raised THEN e
         ELSE Ok([valid |-> FWithinTol(e.val, TwoPi), energy |-> e.val,
                  expected |-> TwoPi])

full_check(x) ==
    LET c == d_space_closure(x) IN
    IF c.raised THEN c
    ELSE LET e == energy_conservation(x) IN
         IF e.raised THEN e
         ELSE Ok([d_space_closure |-> c.val, energy_conservation |-> e.val])

\* ----------------------------------------------------------------
\* [F(v) for v in s]: the first exception raised by F ends the comprehension
MapRaise(F(_), s) ==
    LET rs == [i \in 1..Len(s) |-> F(s[i])] IN
    IF \E i \in 1..Len(s) : rs[i].raised
    THEN rs[CHOOSE i \in 1..Len(s) :
                /\ rs[i].raised
                /\ \A j \in 1..(i - 1) : ~rs[j].raised]
    ELSE Ok([i \in 1..Len(s) |-> rs[i].val])

\* ----------------------------------------------------------------
\* core.py: sequences.
RECURSIVE fib_loop(_, _, _)
\* the body of the for loop of fib, i iterations left
fib_loop(a, b, i) == IF i = 0 THEN b ELSE fib_loop(b, a + b, i - 1)

\* fib with a loop of n iterations
fib_one_more(n) ==
    IF n < 0 THEN Raise("ValueError")
    ELSE IF n <= 1 THEN Ok(n)
    ELSE Ok(fib_loop(0, 1, n))

fib(n) ==
    IF n < 0 THEN Raise("ValueError")
    ELSE IF n <= 1 THEN Ok(n)
    ELSE Ok(fib_loop(0, 1, n - 1))

LUCAS_NUMBERS == <<1, 3, 4, 7, 11, 18, 29, 47, 76, 123, 199, 322>>

\* lucas with the loop started one step late: a, b = 1, 3
lucas_late_start(n) ==
    IF 1 <= n /\ n <= Len(LUCAS_NUMBERS) THEN Ok(LUCAS_NUMBERS[n])
    ELSE IF n <= 1 THEN Ok(3)
    ELSE Ok(fib_loop(1, 3, n - 1))

\* the loop of lucas is the loop of fib, started from a, b = 2, 1;
\* range(n - 1) is empty for n <= 1
lucas(n) ==
    IF 1 <= n /\ n <= Len(LUCAS_NUMBERS) THEN Ok(LUCAS_NUMBERS[n])
    ELSE IF n <= 1 THEN Ok(1)
    ELSE Ok(fib_loop(2, 1, n - 1))

BRAHIM_NUMBERS == <<27, 42, 60, 75, 97, 117, 139, 154, 172, 187>>
MIRROR_CONSTANT == 214

\* x - MIRROR_CONSTANT, the mirror with its operands exchanged
mirror_exchanged(x) == x - MIRROR_CONSTANT

mirror(x) == MIRROR_CONSTANT - x

\* analyzer.py: ConsistencyChecker.mirror_symmetry
mirror_symmetry(values) ==
    LET results == [i \in 1..Len(values) |->
                      LET v == values[i]
                          m == mirror(v)
                          mm == mirror(m)
                      IN [value |-> v, mirror |-> m, mirror_mirror |-> mm,
                          valid |-> (mm = v)]]
    IN Ok([all_valid |-> \A i \in 1..Len(values) : results[i].valid,
           checks |-> results])

\* ----------------------------------------------------------------
\* Lists of integers.
Reverse(s) == [i \in 1..Len(s) |-> s[Len(s) + 1 - i]]
Front(s) == SubSeq(s, 1, Len(s) - 1)
Last(s) == s[Len(s)]
Range(s) == {s[i] : i \in 1..Len(s)}
\* x put after the elements of the sorted list s that are <= x
InsertInt(s, x) ==
    LET n == Cardinality({i \in 1..Len(s) : s[i] <= x}) IN
    SubSeq(s, 1, n) \o <<x>> \o SubSeq(s, n + 1, Len(s))
RECURSIVE SortInts(_)
\* list.sort() on integers
SortInts(s) == IF s = <<>> THEN <<>> ELSE InsertInt(SortInts(Front(s)), Last(s))
RECURSIVE ProductOf(_)
ProductOf(s) == IF s = <<>> THEN 1 ELSE ProductOf(Front(s)) * Last(s)

\* ----------------------------------------------------------------
\* analyzer.py: RepresentationDecomposer.
KNOWN_REPS ==
    [d \in {1, 3, 8, 12, 24, 45, 78, 133, 248} |->
        CASE d = 1 -> [group |-> "U(1)", form |-> "F(1) = 1"]
          [] d = 3 -> [group |-> "SU(2)", form |-> "F(4) = 3"]
          [] d = 8 -> [group |-> "SU(3)", form |-> "F(6) = 8"]
          [] d = 12 -> [group |-> "SM gauge", form |-> "L(12) = 322 states"]
          [] d = 24 -> [group |-> "SU(5) adj", form |-> "F(5)^2 - 1 = 24"]
          [] d = 45 -> [group |-> "SO(10) adj", form |-> "F(4)^2 * F(5) = 45"]
          [] d = 78 -> [group |-> "E6 adj", form |-> "45 + 16 + 16_bar + 1"]
          [] d = 133 -> [group |-> "E7 adj", form |-> "133 = 7 * 19"]
          [] d = 248 -> [group |-> "E8 adj", form |-> "F(6) * 31 = 248"]]

RECURSIVE collect_fibs(_, _, _)
\* the while True loop of fibonacci_factors: fibs after visiting k, k+1, ...
collect_fibs(n, k, fibs) ==
    LET f == fib(k).val IN
    IF f > n THEN fibs
    ELSE IF \E i \in 1..Len(fibs) : fibs[i] = f
         THEN collect_fibs(n, k + 1, fibs)
         ELSE collect_fibs(n, k + 1, Append(fibs, f))

RECURSIVE divide_out(_, _)
\* the inner while loop: st = [remaining, factors] after dividing by f
divide_out(st, f) ==
    IF st.remaining > 1 /\ st.remaining % f = 0
    THEN divide_out([remaining |-> st.remaining \div f,
                     factors |-> Append(st.factors, f)], f)
    ELSE st

RECURSIVE greedy(_, _, _)
\* the for loop over fibs, from position i on
greedy(fibs, i, st) ==
    IF i > Len(fibs) THEN st
    ELSE greedy(fibs, i + 1, divide_out(st, fibs[i]))

\* the record built from the factors the loops collected
factor_record(n, factors) ==
    LET product == ProductOf(factors) IN
    [factors |-> factors, product |-> product,
     residual |-> n - product, exact |-> (product = n)]

RECURSIVE IsFibFrom(_, _, _)
\* f occurs in the sequence that continues a, b by the recurrence
IsFibFrom(a, b, f) == IF b >= f THEN b = f ELSE IsFibFrom(b, a + b, f)
\* f is a Fibonacci number greater than 1
IsFibonacciAbove1(f) == f > 1 /\ IsFibFrom(1, 2, f)
\* the Fibonacci numbers greater than 1 and at most n
FibsUpTo(n) == {f \in 2..n : IsFibonacciAbove1(f)}

RECURSIVE Representable(_)
\* n is a product of Fibonacci numbers greater than 1 (1 is the empty product)
Representable(n) ==
    \/ n = 1
    \/ \E f \in FibsUpTo(n) : n % f = 0 /\ Representable(n \div f)

RECURSIVE some_factorization(_)
\* the factors of one exact factorization of a representable n
some_factorization(n) ==
    IF n = 1 THEN <<>>
    ELSE LET f == CHOOSE g \in FibsUpTo(n) :
                     n % g = 0 /\ Representable(n \div g)
         IN Append(some_factorization(n \div f), f)

\* the factorization made complete: an exact factorization is returned
\* whenever one exists, the greedy one otherwise
fibonacci_factors_exhaustive(n) ==
    IF n <= 0 THEN Ok([factors |-> <<>>, product |-> 0, residual |-> n])
    ELSE IF Representable(n)
    THEN Ok(factor_record(n, SortInts(some_factorization(n))))
    ELSE LET fibs == Reverse(SortInts(collect_fibs(n, 3, <<>>)))
             st == greedy(fibs, 1, [remaining |-> n, factors |-> <<>>])
         IN Ok(factor_record(n, SortInts(st.factors)))

\* fibonacci_factors without the final factors.sort()
fibonacci_factors_unsorted(n) ==
    IF n <= 0 THEN Ok([factors |-> <<>>, product |-> 0, residual |-> n])
    ELSE LET fibs == Reverse(SortInts(collect_fibs(n, 3, <<>>)))
             st == greedy(fibs, 1, [remaining |-> n, factors |-> <<>>])
         IN Ok(factor_record(n, st.factors))

\* fibonacci_factors without the test n <= 0
fibonacci_factors_unguarded(n) ==
    LET fibs == Reverse(SortInts(collect_fibs(n, 3, <<>>)))
        st == greedy(fibs, 1, [remaining |-> n, factors |-> <<>>])
    IN Ok(factor_record(n, SortInts(st.factors)))

fibonacci_factors(n) ==
    IF n <= 0 THEN Ok([factors |-> <<>>, product |-> 0, residual |-> n])
    ELSE LET fibs == Reverse(SortInts(collect_fibs(n, 3, <<>>)))
             st == greedy(fibs, 1, [remaining |-> n, factors |-> <<>>])
         IN Ok(factor_record(n, SortInts(st.factors)))

\* the lookup taken only when the dimension also factors exactly
gut_decomposition_exact_only(parent_dim) ==
    LET fib_info == fibonacci_factors(parent_dim).val IN
    IF parent_dim \in DOMAIN KNOWN_REPS /\ fib_info.exact
    THEN Ok([dimension |-> parent_dim, group |-> KNOWN_REPS[parent_dim].group,
             fibonacci_form |-> KNOWN_REPS[parent_dim].form,
             fibonacci_factors |-> fib_info])
    ELSE Ok([dimension |-> parent_dim, group |-> "unknown",
             fibonacci_form |-> "None",
             fibonacci_factors |-> fib_info])

gut_decomposition(parent_dim) ==
    IF parent_dim \in DOMAIN KNOWN_REPS
    THEN LET info == KNOWN_REPS[parent_dim] IN
         Ok([dimension |-> parent_dim, group |-> info.group,
             fibonacci_form |-> info.form,
             fibonacci_factors |-> fibonacci_factors(parent_dim).val])
    ELSE LET fib_info == fibonacci_factors(parent_dim).val IN
         Ok([dimension |-> parent_dim, group |-> "unknown",
             fibonacci_form |-> "None",
             fibonacci_factors |-> fib_info])

\* d[key] on a dict: KeyError when the key is absent
DictGet(d, key) == IF key \in DOMAIN d THEN Ok(d[key]) ELSE Raise("KeyError")

\* the body of the for loop of hierarchy_rank: the entry appended for den
rank_entry(den) ==
    LET info == gut_decomposition(den).val
        exact == DictGet(info.fibonacci_factors, "exact")
    IN IF info.group # "unknown"
       THEN Ok([denominator |-> den, score |-> 3] @@ info)
       ELSE IF exact.raised THEN exact
       ELSE IF exact.val
            THEN Ok([denominator |-> den, score |-> 2] @@ info)
            ELSE Ok([denominator |-> den, score |-> 1] @@ info)

\* the key with the sign of the score forgotten
rank_key_leq_score_ascending(a, b) ==
    \/ a.score < b.score
    \/ (a.score = b.score /\ a.denominator <= b.denominator)

\* key=lambda r: (-r["score"], r["denominator"]), compared as tuples
rank_key_leq(a, b) ==
    \/ 0 - a.score < 0 - b.score
    \/ (a.score = b.score /\ a.denominator <= b.denominator)

\* r put after the entries of the sorted list s whose key is <= r's (stable)
insert_ranked(s, r) ==
    LET n == Cardinality({i \in 1..Len(s) : rank_key_leq(s[i], r)}) IN
    SubSeq(s, 1, n) \o <<r>> \o SubSeq(s, n + 1, Len(s))

RECURSIVE sort_ranked(_)
\* ranked.sort(key=...)
sort_ranked(s) ==
    IF s = <<>> THEN <<>> ELSE insert_ranked(sort_ranked(Front(s)), Last(s))

hierarchy_rank(denominators) ==
    LET ranked == MapRaise(rank_entry, denominators) IN
    IF ranked.raised THEN ranked ELSE Ok(sort_ranked(ranked.val))

\* ----------------------------------------------------------------
\* analyzer.py: SumRuleValidator.
\* Coefficients and sums are multiples of 1/Unit, kept as integers; on such
\* values float addition and subtraction are exact.  A deviation is the
\* rational num/den ppm, and a tolerance or a rounded deviation is an
\* integer number of thousandths of a ppm.
PPM == 1000000
Abs(x) == IF x < 0 THEN 0 - x ELSE x
RECURSIVE SumOf(_)
\* sum(c_values)
SumOf(s) == IF s = <<>> THEN 0 ELSE SumOf(Front(s)) + Last(s)

\* a / b * 1e6 on floats: ZeroDivisionError when b is zero
RatioPpm(a, b) ==
    IF b = 0 THEN Raise("ZeroDivisionError")
    ELSE Ok([num |-> a * PPM, den |-> b])

\* the deviation computed with the zero branch forgotten
deviation_always_divided(actual, expected_sum) ==
    RatioPpm(Abs(actual - expected_sum), Abs(expected_sum))

\* lines 38-41 of validate: the deviation before rounding
deviation_of(actual, expected_sum) ==
    IF expected_sum = 0 THEN Ok([num |-> Abs(actual) * PPM, den |-> Unit])
    ELSE RatioPpm(Abs(actual - expected_sum), Abs(expected_sum))

\* dev <= tol, tol in thousandths of a ppm
DevLeq(dev, tol) ==
    LET whole == dev.num \div dev.den
        rest == dev.num % dev.den
    IN \/ whole < tol \div 1000
       \/ (whole = tol \div 1000 /\ rest * 1000 <= (tol % 1000) * dev.den)

\* round(dev, 3): the nearest thousandth, ties to even
Round3(dev) ==
    LET whole == dev.num \div dev.den
        rest == dev.num % dev.den
        q == (rest * 1000) \div dev.den
        rr == (rest * 1000) % dev.den
        up == (2 * rr > dev.den) \/ (2 * rr = dev.den /\ q % 2 = 1)
        m == IF up THEN q + 1 ELSE q
    IN IF m = 1000 THEN [ppm |-> whole + 1, milli |-> 0]
       ELSE [ppm |-> whole, milli |-> m]

\* a rounded deviation against a tolerance
RoundedLeq(r, tol) ==
    \/ r.ppm < tol \div 1000
    \/ (r.ppm = tol \div 1000 /\ r.milli <= tol % 1000)

\* validate with valid taken from the rounded deviation it returns
validate_rounded_first(c_values, expected_sum, tolerance_ppm) ==
    LET actual == SumOf(c_values)
        deviation_ppm == deviation_of(actual, expected_sum)
    IN IF deviation_ppm.raised THEN deviation_ppm
       ELSE Ok([valid |-> RoundedLeq(Round3(deviation_ppm.val), tolerance_ppm),
                actual_sum |-> actual,
                expected_sum |-> expected_sum,
                deviation_ppm |-> Round3(deviation_ppm.val),
                tolerance_ppm |-> tolerance_ppm,
                residual |-> actual - expected_sum])

validate(c_values, expected_sum, tolerance_ppm) ==
    LET actual == SumOf(c_values)
        deviation_ppm == deviation_of(actual, expected_sum)
    IN IF deviation_ppm.raised THEN deviation_ppm
       ELSE Ok([valid |-> DevLeq(deviation_ppm.val, tolerance_ppm),
                actual_sum |-> actual,
                expected_sum |-> expected_sum,
                deviation_ppm |-> Round3(deviation_ppm.val),
                tolerance_ppm |-> tolerance_ppm,
                residual |-> actual - expected_sum])

\* ----------------------------------------------------------------
\* analyzer.py: SumRuleValidator.find_missing, on doubles at two scales.
\* [hi, lo] is the double hi * 2^53 + lo with lo far below 2^53 in magnitude:
\* next to 2^53 the doubles are 2 apart, next to 2^54 they are 4 apart, and
\* an addition rounds its exact result to the nearest one, ties to the even
\* mantissa.  With hi = 0 every operation is exact.
WNum(hi, lo) == [hi |-> hi, lo |-> lo]
WZero == WNum(0, 0)

RECURSIVE Pow2Floor(_)
\* the largest power of two that is at most a, a >= 1
Pow2Floor(a) == IF a <= 1 THEN 1 ELSE 2 * Pow2Floor(a \div 2)

\* the spacing of the doubles around the magnitude a * 2^53 + s
Ulp(a, s) ==
    IF a = 0 THEN 1
    ELSE IF s < 0 /\ Pow2Floor(a) = a THEN a
    ELSE 2 * Pow2Floor(a)

\* the double nearest to hi * 2^53 + lo
FlRound(hi, lo) ==
    LET a == Abs(hi)
        s == IF hi < 0 THEN 0 - lo ELSE lo
        u == Ulp(a, s)
        q == s \div u
        r == s % u
        up == (2 * r > u) \/ (2 * r = u /\ q % 2 = 1)
        s2 == u * (IF up THEN q + 1 ELSE q)
    IN WNum(hi, IF hi < 0 THEN 0 - s2 ELSE s2)

\* a + b and a - b on doubles
WAdd(a, b) == FlRound(a.hi + b.hi, a.lo + b.lo)
WSub(a, b) == FlRound(a.hi - b.hi, a.lo - b.lo)
\* fabs(a) and a >= b
WAbs(a) ==
    IF a.hi < 0 \/ (a.hi = 0 /\ a.lo < 0) THEN WNum(0 - a.hi, 0 - a.lo) ELSE a
WGeq(a, b) == a.hi > b.hi \/ (a.hi = b.hi /\ a.lo >= b.lo)

RECURSIVE sum_naive(_)
\* the builtin sum up to CPython 3.11: one rounded addition per element
sum_naive(s) == IF s = <<>> THEN WZero ELSE WAdd(sum_naive(Front(s)), Last(s))

RECURSIVE sum_neumaier(_)
\* the builtin sum from CPython 3.12 on: the running sum f and the
\* compensation c of the Neumaier loop after the elements of s
sum_neumaier(s) ==
    IF s = <<>> THEN [f |-> WZero, c |-> WZero]
    ELSE LET st == sum_neumaier(Front(s))
             x == Last(s)
             t == WAdd(st.f, x)
             lost == IF WGeq(WAbs(st.f), WAbs(x)) THEN WAdd(WSub(st.f, t), x)
                     ELSE WAdd(WSub(x, t), st.f)
         IN [f |-> t, c |-> WAdd(st.c, lost)]

\* sum(c_values) under either interpreter
py_sum(s, compensated) ==
    IF compensated
    THEN LET st == sum_neumaier(s) IN
         IF st.c # WZero THEN WAdd(st.f, st.c) ELSE st.f
    ELSE sum_naive(s)

\* the missing coefficient with the operands of the subtraction swapped
find_missing_swapped(c_values, target_sum, compensated) ==
    Ok(<<WSub(py_sum(c_values, compensated), target_sum)>>)

find_missing(c_values, target_sum, compensated) ==
    Ok(<<WSub(target_sum, py_sum(c_values, compensated))>>)

\* validate(c_values, expected_sum) with the default tolerance of 100 ppm, on
\* doubles at two scales.  The deviation is kept as the rounded value the
\* result carries when every operand is below 2^53, and otherwise only as
\* whether it rounds to 0.0: a residual below 2^53 against an expected sum of
\* 2^53 or more is under 1e-8 ppm, and a residual of 2^53 or more is over
\* 100 ppm of any expected sum in range.
validate_default(c_values, expected_sum, compensated) ==
    LET actual == py_sum(c_values, compensated)
        residual == WSub(actual, expected_sum)
        dev == deviation_of(actual.lo * Unit, expected_sum.lo * Unit)
    IN IF actual.hi = 0 /\ expected_sum.hi = 0
       THEN Ok([valid |-> DevLeq(dev.val, 100000),
                actual_sum |-> actual,
                expected_sum |-> expected_sum,
                zero_deviation |-> Round3(dev.val) = [ppm |-> 0, milli |-> 0],
                residual |-> residual])
       ELSE Ok([valid |-> residual.hi = 0,
                actual_sum |-> actual,
                expected_sum |-> expected_sum,
                zero_deviation |-> residual.hi = 0,
                residual |-> residual])

\* ----------------------------------------------------------------
\* engine.py: the PhiEngine facade.

\* a plausible slip: the comprehension filters like the one in report does
transform_skipping_nonpositive(values) ==
    MapRaise(D, SelectSeq(values, FIsPositive))

transform(values) == MapRaise(D, values)

inverse_transform(d_values) == MapRaise(x_from_D, d_values)

energy(values) == MapRaise(Energy, values)

\* PhiEngine.validate
engine_validate(coefficients, expected_sum, tolerance_ppm) ==
    validate(coefficients, expected_sum, tolerance_ppm)

\* PhiEngine.decompose
engine_decompose(dim) == gut_decomposition(dim)

\* PhiEngine.hierarchy
engine_hierarchy(denominators) == hierarchy_rank(denominators)

\* data.get("values", [])
DictGetValues(data) == IF "values" \in DOMAIN data THEN data.values ELSE <<>>

\* report(data, adapter_name=None)
report(data) ==
    LET values == DictGetValues(data)
        head == [engine |-> "phi-engine", version |-> "1.618.0"]
    IN IF values = <<>> THEN Ok(head)
       ELSE LET d_values == transform(values) IN
            IF d_values.raised THEN d_values
            ELSE LET energies == energy(values) IN
                 IF energies.raised THEN energies
                 ELSE LET checks == MapRaise(full_check, SelectSeq(values, FIsPositive)) IN
                      IF checks.raised THEN checks
                      ELSE Ok([engine |-> head.engine, version |-> head.version,
                               d_space |-> d_values.val,
                               energies |-> energies.val,
                               consistency |->
                                 [all_valid |->
                                    \A i \in 1..Len(checks.val) :
                                       /\ checks.val[i].d_space_closure.valid
                                       /\ checks.val[i].energy_conservation.valid,
                                  checks_run |-> Len(checks.val)]])

\* x_from_D(D(x)), as test_x_from_d_roundtrip composes them
roundtrip(x) ==
    LET d == D(x) IN
    IF d.raised THEN d ELSE x_from_D(d.val)

\* engine.inverse_transform(engine.transform(values))
roundtrip_list(values) ==
    LET d == transform(values) IN
    IF d.raised THEN d ELSE inverse_transform(d.val)

\* ----------------------------------------------------------------
\* adapters/base.py: the result of an analysis.
AnalysisResult(success, data, d_space_values, consistency_score, hierarchy, recommendations) ==
    [success |-> success, data |-> data, d_space_values |-> d_space_values,
     consistency_score |-> consistency_score, hierarchy |-> hierarchy,
     recommendations |-> recommendations, metadata |-> EmptyDict]

\* A consistency score is either a number of billionths (nano), or
\* 1 - sqrt(var) * ln 2 / ln PHI for a variance var of dimension units.
NANO == 1000000000
ScoreNano(n) == [k |-> "nano", nano |-> n]
ScoreOneMinusStd(var) == [k |-> "one_minus_std", var |-> var]
\* the float nan
NaN == [k |-> "nan"]
\* a rational number
Q(num, den) == [num |-> num, den |-> den]
\* ln 2 / ln PHI = 1.44042..., the size of a dimension unit, and its square
UNIT_E5 == 144042
UNIT_SQ_E5 == 207481
\* q * ln 2 / ln PHI > c / 1000, for a rational q >= 0 of dimension units
UnitsGreater(q, c) == q.num * UNIT_E5 > c * q.den * 100
\* q * (ln 2 / ln PHI)^2 > c / 1000000, for a rational q >= 0
SquareUnitsGreater(q, c) == q.num * UNIT_SQ_E5 * 10 > c * q.den

\* 1.0 - ppm / 1e6 without the floor at 0.0
score_from_ppm_unclamped(r) == ScoreNano(NANO - (r.ppm * 1000 + r.milli))

\* max(0.0, 1.0 - ppm / 1e6) for a rounded deviation
score_from_ppm(r) ==
    IF r.ppm >= PPM THEN ScoreNano(0)
    ELSE ScoreNano(NANO - (r.ppm * 1000 + r.milli))

\* max(0.0, 1.0 - std) for the standard deviation of variance var
score_from_std(var) ==
    IF SquareUnitsGreater(var, 1000000) THEN ScoreNano(0)
    ELSE IF var.num = 0 THEN ScoreNano(NANO)
    ELSE ScoreOneMinusStd(var)

\* round(score, 6)
round6(score) ==
    IF score.k = "nano"
    THEN LET q == score.nano \div 1000
             r == score.nano % 1000
             up == r > 500 \/ (r = 500 /\ q % 2 = 1)
         IN ScoreNano(1000 * (IF up THEN q + 1 ELSE q))
    ELSE score

\* statistics.mean and the variance under statistics.stdev, of integers
mean(xs) == Q(SumOf(xs), Len(xs))
SumOfSquares(xs) == SumOf([i \in 1..Len(xs) |-> xs[i] * xs[i]])
variance(xs) ==
    Q(Len(xs) * SumOfSquares(xs) - SumOf(xs) * SumOf(xs), Len(xs) * (Len(xs) - 1))

\* 1 / PHI ** d for the rational number d of dimension units: the power of
\* two 2^(-d), whose exponent is kept as a rational
x_from_D_rational(d) ==
    IF d.num % d.den = 0 THEN x_from_D(DFin(d.num \div d.den))
    ELSE IF d.num > (DBL_MAX_EXP + 1) * d.den THEN Raise("OverflowError")
    ELSE IF d.num < DBL_MIN_EXP * d.den THEN Raise("ZeroDivisionError")
    ELSE IF 0 - d.num > DBL_MAX_EXP * d.den THEN Ok(FInf(1))
    ELSE Ok([k |-> "fin", sgn |-> 1, tp |-> 0, e |-> Q(0 - d.num, d.den)])

\* ----------------------------------------------------------------
\* adapters/calibration.py
calibration_ingest(raw_data) ==
    LET readings == IF "readings" \in DOMAIN raw_data THEN raw_data.readings ELSE <<>>
        reference == IF "reference" \in DOMAIN raw_data THEN raw_data.reference ELSE FOne
        instrument == IF "instrument" \in DOMAIN raw_data THEN raw_data.instrument
                      ELSE "unknown"
    IN IF readings = <<>>
       THEN Ok([error |-> "No readings provided", d_readings |-> <<>>, d_ref |-> DFin(0)])
       ELSE IF FLeqZero(reference)
       THEN Ok([error |-> "Reference must be > 0", d_readings |-> <<>>, d_ref |-> DFin(0)])
       ELSE LET d_ref == D(reference)
                d_readings == MapRaise(LAMBDA r : IF FIsPositive(r) THEN D(r) ELSE Ok(NaN),
                                       readings)
            IN IF d_ref.raised THEN d_ref
               ELSE IF d_readings.raised THEN d_readings
               ELSE LET kept == SelectSeq(d_readings.val, LAMBDA dr : dr # NaN)
                        d_residuals == [i \in 1..Len(kept) |-> DAdd(kept[i], DNeg(d_ref.val))]
                    IN Ok([d_readings |-> d_readings.val,
                           d_ref |-> d_ref.val,
                           d_residuals |-> d_residuals,
                           reference |-> reference,
                           instrument |-> instrument,
                           n_readings |-> Len(readings),
                           raw_readings |-> readings])

\* the sum rule of analyze: validate(c_values, float(n), tolerance_ppm=1000)
\* for c_values = r / d_mean, or all 0 when d_mean is 0; both sums are taken
\* in units of 1 / abs(sum of the residuals)
calibration_sum_rule(ns) ==
    LET n == Len(ns)
        total == SumOf(ns)
        scale == IF total = 0 THEN Unit ELSE Abs(total)
        sgn == IF total < 0 THEN 0 - 1 ELSE 1
        c_scaled == [i \in 1..n |-> IF total = 0 THEN 0 ELSE sgn * ns[i] * n]
        actual == SumOf(c_scaled)
        dev == deviation_of(actual, n * scale)
    IN [valid |-> DevLeq(dev.val, 1000000),
        actual_sum |-> Q(actual, scale),
        expected_sum |-> n,
        deviation_ppm |-> Round3(dev.val),
        tolerance_ppm |-> 1000000,
        residual |-> Q(actual - n * scale, scale)]

\* the recommendations of analyze without the test of the variance
calibration_recommendations_drift_only(d_mean, d_var) ==
    IF UnitsGreater(Q(Abs(d_mean.num), d_mean.den), 100)
    THEN <<"Systematic drift detected. Recalibrate instrument.">>
    ELSE <<"Instrument within calibration tolerance.">>

\* the recommendations of analyze
calibration_recommendations(d_mean, d_var) ==
    LET drift == IF UnitsGreater(Q(Abs(d_mean.num), d_mean.den), 100)
                 THEN <<"Systematic drift detected. Recalibrate instrument.">>
                 ELSE <<>>
        noise == IF SquareUnitsGreater(d_var, 2500)
                 THEN <<"High D-space variance. Check for environmental interference.">>
                 ELSE <<>>
    IN IF drift \o noise = <<>> THEN <<"Instrument within calibration tolerance.">>
       ELSE drift \o noise

calibration_analyze(d_data) ==
    IF "error" \in DOMAIN d_data
    THEN Ok(AnalysisResult(FALSE, d_data, <<>>, ScoreNano(0), <<>>, <<d_data.error>>))
    ELSE LET residuals == d_data.d_residuals
             raw == d_data.raw_readings
         IN IF Len(residuals) < 2
            THEN Ok(AnalysisResult(FALSE, d_data, residuals, ScoreNano(0), <<>>,
                                   <<"Need at least 2 valid readings">>))
            ELSE LET ns == [i \in 1..Len(residuals) |-> residuals[i].n]
                     d_mean == mean(ns)
                     d_var == variance(ns)
                     c_values == [i \in 1..Len(ns) |->
                                    IF d_mean.num # 0 THEN Q(ns[i] * d_mean.den, d_mean.num)
                                    ELSE Q(0, 1)]
                     sr == calibration_sum_rule(ns)
                     consistency == score_from_ppm(sr.deviation_ppm)
                     corrected ==
                        MapRaise(LAMBDA r :
                                    IF FIsPositive(r)
                                    THEN x_from_D_rational(
                                            Q(D(r).val.n * d_mean.den - d_mean.num, d_mean.den))
                                    ELSE Ok(r),
                                 raw)
                     drift_direction == IF d_mean.num > 0 THEN "positive"
                                        ELSE IF d_mean.num < 0 THEN "negative" ELSE "none"
                 IN IF corrected.raised THEN corrected
                    ELSE Ok(AnalysisResult(
                            TRUE,
                            [d_mean |-> d_mean,
                             d_var |-> d_var,
                             correction_coefficients |-> c_values,
                             sum_rule |-> sr,
                             corrected_values |-> corrected.val,
                             drift |-> [direction |-> drift_direction,
                                        magnitude |-> Q(Abs(d_mean.num), d_mean.den)]],
                            residuals, consistency, <<>>,
                            calibration_recommendations(d_mean, d_var)))

calibration_report(result) ==
    LET data == result.data IN
    [adapter |-> "calibration",
     success |-> result.success,
     consistency_score |-> round6(result.consistency_score),
     drift |-> GetOr(data, "drift", EmptyDict),
     d_space_summary |-> [mean |-> GetOr(data, "d_mean", Q(0, 1)),
                          var |-> GetOr(data, "d_var", Q(0, 1)),
                          n_readings |-> Len(result.d_space_values)],
     sum_rule |-> GetOr(data, "sum_rule", EmptyDict),
     corrected_values |-> GetOr(data, "corrected_values", <<>>),
     recommendations |-> result.recommendations]

\* ----------------------------------------------------------------
\* Rational arithmetic, for the means and weights of sensor fusion.
RECURSIVE Gcd(_, _)
Gcd(a, b) == IF b = 0 THEN a ELSE Gcd(b, a % b)
\* lowest terms, positive denominator
QNorm(q) ==
    LET g == Gcd(Abs(q.num), Abs(q.den))
        sgn == IF q.den < 0 THEN 0 - 1 ELSE 1
    IN IF q.num = 0 THEN Q(0, 1) ELSE Q(sgn * (q.num \div g), sgn * (q.den \div g))
QAdd(a, b) == QNorm(Q(a.num * b.den + b.num * a.den, a.den * b.den))
QSub(a, b) == QAdd(a, Q(0 - b.num, b.den))
QMul(a, b) == QNorm(Q(a.num * b.num, a.den * b.den))
\* a / b, b not zero
QDiv(a, b) == QNorm(Q(a.num * b.den, a.den * b.num))
QLess(a, b) == a.num * b.den < b.num * a.den
RECURSIVE QSum(_)
QSum(s) == IF s = <<>> THEN Q(0, 1) ELSE QAdd(QSum(Front(s)), Last(s))
\* the variance under statistics.stdev, of rationals
QVariance(qs) ==
    LET n == Len(qs)
        m == QDiv(QSum(qs), Q(n, 1))
        sq == [i \in 1..n |-> QMul(QSub(qs[i], m), QSub(qs[i], m))]
    IN QDiv(QSum(sq), Q(n - 1, 1))

\* ----------------------------------------------------------------
\* adapters/sensor_fusion.py
\* The float None
None == [k |-> "None"]
\* (ln 2 / ln PHI)^2 = 2.0748..., taken as 83/40 where a weight divides by it
UNIT_SQ_NUM == 83
UNIT_SQ_DEN == 40

\* one entry of sensor_data, lines 58-75 of ingest
sensor_entry(s) ==
    LET readings == GetOr(s, "readings", <<>>)
        weight == GetOr(s, "weight", 1)
        name == GetOr(s, "name", "unnamed")
        valid == SelectSeq(readings, FIsPositive)
        d_vals == MapRaise(D, valid)
    IN IF d_vals.raised THEN d_vals
       ELSE LET ns == [i \in 1..Len(valid) |-> d_vals.val[i].n] IN
            Ok([name |-> name,
                weight |-> weight,
                d_values |-> d_vals.val,
                d_mean |-> IF Len(ns) > 0 THEN QNorm(mean(ns)) ELSE Q(0, 1),
                d_var |-> IF Len(ns) >= 2 THEN QNorm(variance(ns)) ELSE Q(0, 1),
                n_valid |-> Len(valid),
                n_total |-> Len(readings)])

sensor_fusion_ingest(raw_data) ==
    LET sensors == GetOr(raw_data, "sensors", <<>>)
        reference == GetOr(raw_data, "reference", None)
    IN IF sensors = <<>>
       THEN Ok([error |-> "No sensors provided", sensor_data |-> <<>>])
       ELSE LET d_ref == IF reference # None /\ FIsPositive(reference) THEN D(reference)
                         ELSE Ok(None)
                sensor_data == MapRaise(sensor_entry, sensors)
            IN IF d_ref.raised THEN d_ref
               ELSE IF sensor_data.raised THEN sensor_data
               ELSE Ok([sensor_data |-> sensor_data.val,
                        d_ref |-> d_ref.val,
                        n_sensors |-> Len(sensors)])

RECURSIVE Concat(_)
\* the lists of ss one after the other, as repeated list.extend builds them
Concat(ss) == IF ss = <<>> THEN <<>> ELSE Concat(Front(ss)) \o Last(ss)

\* the precision weight of a sensor, lines 114-119 of analyze, times
\* (ln 2 / ln PHI)^2
precision_weight(sd) ==
    IF sd.d_var.num > 0
    THEN QDiv(Q(sd.weight, 1), sd.d_var)
    ELSE QNorm(Q(sd.weight * 1000 * UNIT_SQ_NUM, UNIT_SQ_DEN))

\* min(d_std, 1.0) of a is less than that of b
capped_std_less(a, b) ==
    /\ QLess(a.d_var, b.d_var)
    /\ ~SquareUnitsGreater(a.d_var, 1000000)

RECURSIVE sort_quality(_)
\* quality.sort(key=lambda x: -x["quality"]): stable, best quality first
sort_quality(s) ==
    IF s = <<>> THEN <<>>
    ELSE LET rest == sort_quality(Front(s))
             x == Last(s)
             n == Cardinality({i \in 1..Len(rest) : ~capped_std_less(x, rest[i])})
         IN SubSeq(rest, 1, n) \o <<x>> \o SubSeq(rest, n + 1, Len(rest))

\* one entry of the quality list: quality is 1 - min(d_std, 1.0)
quality_entry(sd) ==
    [sensor |-> sd.name,
     quality |-> IF SquareUnitsGreater(sd.d_var, 1000000) THEN ScoreNano(0)
                 ELSE IF sd.d_var.num = 0 THEN ScoreNano(NANO)
                 ELSE ScoreOneMinusStd(sd.d_var),
     d_mean |-> sd.d_mean,
     d_var |-> sd.d_var,
     n_readings |-> sd.n_valid]

sensor_fusion_recommendations(inter_var, sensor_data) ==
    LET spread == IF SquareUnitsGreater(inter_var, 10000)
                  THEN <<"High inter-sensor disagreement. Check for systematic bias in individual sensors.">>
                  ELSE <<>>
        low_q == IF \E i \in 1..Len(sensor_data) :
                       SquareUnitsGreater(sensor_data[i].d_var, 250000)
                 THEN <<"Low quality sensors. Consider recalibration.">>
                 ELSE <<>>
    IN IF spread \o low_q = <<>> THEN <<"All sensors consistent. Fusion reliable.">>
       ELSE spread \o low_q

sensor_fusion_analyze(d_data) ==
    IF "error" \in DOMAIN d_data
    THEN Ok(AnalysisResult(FALSE, d_data, <<>>, ScoreNano(0), <<>>, <<d_data.error>>))
    ELSE LET sensor_data == d_data.sensor_data
             d_ref == GetOr(d_data, "d_ref", None)
         IN IF sensor_data = <<>>
            THEN Ok(AnalysisResult(FALSE, d_data, <<>>, ScoreNano(0), <<>>,
                                   <<"No sensor data to fuse">>))
            ELSE LET n == Len(sensor_data)
                     pw == [i \in 1..n |-> precision_weight(sensor_data[i])]
                     weighted_d_sum == QSum([i \in 1..n |-> QMul(sensor_data[i].d_mean, pw[i])])
                     total_weight == QSum(pw)
                     all_d_values == Concat([i \in 1..n |-> sensor_data[i].d_values])
                     fused_d == IF total_weight.num > 0 THEN QDiv(weighted_d_sum, total_weight)
                                ELSE Q(0, 1)
                     fused_value == x_from_D_rational(fused_d)
                     with_valid == SelectSeq(sensor_data, LAMBDA sd : sd.n_valid > 0)
                     d_means == [i \in 1..Len(with_valid) |-> with_valid[i].d_mean]
                     inter_var == IF Len(d_means) >= 2 THEN QVariance(d_means) ELSE Q(0, 1)
                     weights == [i \in 1..n |-> sensor_data[i].weight * Unit]
                     sr == validate(weights, SumOf(weights), 100000)
                     consistency == score_from_std(inter_var)
                     ref_deviation == IF d_ref # None THEN QSub(fused_d, Q(d_ref.n, 1))
                                      ELSE None
                     quality == sort_quality([i \in 1..n |-> quality_entry(sensor_data[i])])
                 IN IF fused_value.raised THEN fused_value
                    ELSE IF sr.raised THEN sr
                    ELSE Ok(AnalysisResult(
                            TRUE,
                            [fused_d |-> fused_d,
                             fused_value |-> fused_value.val,
                             inter_sensor_var |-> inter_var,
                             ref_deviation |-> ref_deviation,
                             sensor_quality |-> quality,
                             sum_rule |-> sr.val],
                            all_d_values, consistency, quality,
                            sensor_fusion_recommendations(inter_var, sensor_data)))

sensor_fusion_report_succeeding(result) ==
    LET data == result.data IN
    [adapter |-> "sensor_fusion",
     success |-> TRUE,
     fused_estimate |-> [d_space |-> GetOr(data, "fused_d", Q(0, 1)),
                         real_value |-> GetOr(data, "fused_value", FZero)],
     consistency_score |-> round6(result.consistency_score),
     inter_sensor_var |-> GetOr(data, "inter_sensor_var", Q(0, 1)),
     ref_deviation |-> GetOr(data, "ref_deviation", None),
     sensor_quality |-> GetOr(data, "sensor_quality", <<>>),
     recommendations |-> result.recommendations]
sensor_fusion_report(result) ==
    LET data == result.data IN
    [adapter |-> "sensor_fusion",
     success |-> result.success,
     fused_estimate |-> [d_space |-> GetOr(data, "fused_d", Q(0, 1)),
                         real_value |-> GetOr(data, "fused_value", FZero)],
     consistency_score |-> round6(result.consistency_score),
     inter_sensor_var |-> GetOr(data, "inter_sensor_var", Q(0, 1)),
     ref_deviation |-> GetOr(data, "ref_deviation", None),
     sensor_quality |-> GetOr(data, "sensor_quality", <<>>),
     recommendations |-> result.recommendations]

\* ----------------------------------------------------------------
\* photosynthesis_constants.py and adapters/photosynthesis.py.
\* A positive float of this adapter is kept by its dimension: PFloat(md, tick)
\* is the tick-th double above 10^(-md / 1000), so md is D(x) in thousandths
\* of D(0.1).  D rounds: for the decades 0.1 .. 1e-7 the double just above
\* has the same D as the decade itself.  Floats that are no decade carry the
\* md nearest to their dimension.
PFloat(md, tick) == [k |-> "fin", sgn |-> 1, md |-> md, tick |-> tick]
P_ONE == PFloat(0, 0)
\* 1e-10, the floor of an efficiency
P_FLOOR == PFloat(10000, 0)
\* a < b on these floats and on 0.0 and -1.0
PLess(a, b) ==
    IF FLeqZero(b) THEN FALSE
    ELSE IF FLeqZero(a) THEN TRUE
    ELSE a.md > b.md \/ (a.md = b.md /\ a.tick < b.tick)
PMin(a, b) == IF PLess(b, a) THEN b ELSE a
PMax(a, b) == IF PLess(a, b) THEN b ELSE a
\* D(x) for x > 0, in thousandths of D(0.1)
PD(x) == x.md
\* a * b
PMul(a, b) ==
    IF FLeqZero(a) \/ FLeqZero(b) THEN FZero ELSE PFloat(a.md + b.md, 0)

\* NATURAL_STEPS: efficiencies 0.95, 0.99, 0.85, 0.80, 0.66, 0.45, 0.72
NATURAL_STEPS ==
    << [name |-> "photon_capture", efficiency |-> PFloat(22, 0),
        catalyst |-> "Chlorophyll a/b antenna"],
       [name |-> "charge_separation", efficiency |-> PFloat(4, 0),
        catalyst |-> "P680/P700 reaction centres"],
       [name |-> "electron_transport", efficiency |-> PFloat(71, 0),
        catalyst |-> "Plastoquinone chain"],
       [name |-> "water_splitting", efficiency |-> PFloat(97, 0),
        catalyst |-> "Mn4CaO5 cluster (OEC)"],
       [name |-> "nadph_atp", efficiency |-> PFloat(180, 0),
        catalyst |-> "ATP synthase / Fd-NADP+ reductase"],
       [name |-> "carbon_fixation", efficiency |-> PFloat(347, 0),
        catalyst |-> "RuBisCO (Calvin cycle)"],
       [name |-> "photorespiration", efficiency |-> PFloat(143, 0),
        catalyst |-> "RuBisCO oxygenase side-reaction"] >>

\* MOF_MATERIALS: the keys in insertion order, and the entries.  pore_nm is in
\* hundredths of a nm, co2_capacity_mmol_g and cost_relative in tenths.
MOF_NAMES ==
    <<"ZIF-8", "MOF-74-Mg", "HKUST-1", "UiO-66", "MIL-101", "Mg-MOF-74", "Fe-BTC",
      "COF-300">>
MofEntry(metal, pore, cap, sel, stab, water, abundant, cost, healing) ==
    [metal |-> metal, pore_nm |-> pore, co2_capacity_mmol_g |-> cap,
     co2_n2_selectivity |-> sel, thermal_stability_c |-> stab,
     water_stable |-> water, abundant |-> abundant, cost_relative |-> cost,
     self_healing |-> healing]
MOF_MATERIALS ==
    [n \in {MOF_NAMES[i] : i \in 1..Len(MOF_NAMES)} |->
        CASE n = "ZIF-8" -> MofEntry("Zn", 34, 12, 15, 550, TRUE, TRUE, 10, FALSE)
          [] n = "MOF-74-Mg" -> MofEntry("Mg", 110, 89, 175, 300, FALSE, TRUE, 18, FALSE)
          [] n = "HKUST-1" -> MofEntry("Cu", 90, 42, 22, 280, FALSE, TRUE, 15, FALSE)
          [] n = "UiO-66" -> MofEntry("Zr", 60, 23, 30, 540, TRUE, FALSE, 25, FALSE)
          [] n = "MIL-101" -> MofEntry("Cr", 290, 50, 10, 350, TRUE, FALSE, 20, FALSE)
          [] n = "Mg-MOF-74" -> MofEntry("Mg", 110, 80, 150, 310, FALSE, TRUE, 16, FALSE)
          [] n = "Fe-BTC" -> MofEntry("Fe", 250, 31, 18, 370, TRUE, TRUE, 8, TRUE)
          [] n = "COF-300" -> MofEntry("none", 72, 18, 40, 490, TRUE, TRUE, 13, TRUE)]

\* PHI_OPTIMAL_PORE_NM = 0.330 * PHI ** 0.2 = 0.36334, in 1e-4 nm
PHI_OPTIMAL_PORE_NM == 3633

\* temp_correction(temp_c) = exp(-GAMMA * abs(temp_c - 25)), at the
\* temperatures of the model: 1.0 at 25 C and 0.2325 at 35 C
temp_correction(temp_c) ==
    IF temp_c = 25 THEN P_ONE ELSE PFloat(634, 0)

\* co2_factor(co2_ppm) = co2_ppm / (co2_ppm + 200), and 0.0 below zero, at
\* the concentrations of the model: 0.6748 at 415 ppm, 0.9950 at 40000 ppm
co2_factor(co2_ppm) ==
    IF co2_ppm < 0 THEN FZero
    ELSE IF co2_ppm = 415 THEN PFloat(171, 0)
    ELSE PFloat(2, 0)

\* quantum_coherence_factor(temp_c, coupling), coupling in tenths:
\* exp(-BETA * (temp_c + 273.15) / (coupling * 300)), 0.7458 at 25 C and
\* 0.7385 at 35 C for the coupling 0.8
quantum_coherence_factor(temp_c, coupling_strength) ==
    IF coupling_strength <= 0 THEN FZero
    ELSE IF temp_c = 25 THEN PFloat(127, 0)
    ELSE PFloat(132, 0)

\* mof_score(entry) as a rational
mof_score(entry) ==
    LET capacity == Q(GetOr(entry, "co2_capacity_mmol_g", 0), 10)
        selectivity == Q(GetOr(entry, "co2_n2_selectivity", 1), 1)
        stability == QNorm(Q(GetOr(entry, "thermal_stability_c", 200), 600))
        c == GetOr(entry, "cost_relative", 10)
        cost == IF c * 10 < 1 THEN Q(1, 100) ELSE QNorm(Q(c, 10))
        abundant == IF GetOr(entry, "abundant", FALSE) THEN Q(3, 2) ELSE Q(1, 1)
        healing == IF GetOr(entry, "self_healing", FALSE) THEN Q(6, 5) ELSE Q(1, 1)
        water == IF GetOr(entry, "water_stable", FALSE) THEN Q(11, 10) ELSE Q(9, 10)
    IN QDiv(QMul(QMul(QMul(QMul(QMul(capacity, selectivity), stability), abundant),
                      healing), water),
            cost)

\* For each material: D(max(score, 1e-10)) in thousandths of D(0.1), and
\* pore_selectivity(pore_nm) = 200 * exp(-(pore - optimum)^2 / (2 * 0.05^2))
\* in hundredths
D_OF_SCORE ==
    [n \in DOMAIN MOF_MATERIALS |->
        CASE n = "ZIF-8" -> 0 - 1435 [] n = "MOF-74-Mg" -> 0 - 2766
          [] n = "HKUST-1" -> 0 - 1589 [] n = "UiO-66" -> 0 - 1437
          [] n = "MIL-101" -> 0 - 1205 [] n = "Mg-MOF-74" -> 0 - 2719
          [] n = "Fe-BTC" -> 0 - 1930 [] n = "COF-300" -> 0 - 1952]
pore_selectivity(name) == IF name = "ZIF-8" THEN 17936 ELSE 0
\* min(co2_capacity_mmol_g / 10.0, 1.0) of a material, as a float
CAPTURE_EFFICIENCY ==
    [n \in DOMAIN MOF_MATERIALS |->
        CASE n = "ZIF-8" -> PFloat(921, 0) [] n = "MOF-74-Mg" -> PFloat(51, 0)
          [] n = "HKUST-1" -> PFloat(377, 0) [] n = "UiO-66" -> PFloat(638, 0)
          [] n = "MIL-101" -> PFloat(301, 0) [] n = "Mg-MOF-74" -> PFloat(97, 0)
          [] n = "Fe-BTC" -> PFloat(509, 0) [] n = "COF-300" -> PFloat(745, 0)]

\* _clamp_efficiency(eta) = max(1e-10, min(eta, 1.0))
clamp_efficiency(eta) == PMax(P_FLOOR, PMin(eta, P_ONE))

\* one iteration of the loop of _ingest_cascade, lines 98-107
cascade_step(s) ==
    LET eta == clamp_efficiency(GetOr(s, "efficiency", PFloat(301, 0))) IN
    [name |-> GetOr(s, "name", "unnamed"),
     efficiency |-> eta,
     d_value |-> PD(eta),
     catalyst |-> GetOr(s, "catalyst", "")]

RECURSIVE PProduct(_)
\* product = 1.0, then product *= eta for each step
PProduct(etas) ==
    IF etas = <<>> THEN P_ONE ELSE PMul(PProduct(Front(etas)), Last(etas))

ingest_cascade(raw, temp_c, co2_ppm) ==
    LET steps == GetOr(raw, "steps", NATURAL_STEPS)
        target == GetOr(raw, "target_efficiency", PFloat(699, 0))
        d_steps == [i \in 1..Len(steps) |-> cascade_step(steps[i])]
        product == PProduct([i \in 1..Len(steps) |-> d_steps[i].efficiency])
    IN [mode |-> "cascade",
        steps |-> d_steps,
        overall_efficiency |-> product,
        d_overall |-> PD(PMax(product, P_FLOOR)),
        target_efficiency |-> target,
        d_target |-> PD(PMax(target, P_FLOOR)),
        temperature_c |-> temp_c,
        co2_ppm |-> co2_ppm,
        temp_factor |-> temp_correction(temp_c),
        co2_sat |-> co2_factor(co2_ppm)]

\* one iteration of the loop of _ingest_mof, lines 127-141, for a known name
mof_candidate(name) ==
    LET mat == MOF_MATERIALS[name] IN
    [f \in {"name", "score", "d_score", "pore_phi_match", "geometric_selectivity"}
           \cup DOMAIN mat |->
        CASE f = "name" -> name
          [] f = "score" -> mof_score(mat)
          [] f = "d_score" -> D_OF_SCORE[name]
          [] f = "pore_phi_match" -> Abs(mat.pore_nm * 100 - PHI_OPTIMAL_PORE_NM)
          [] f = "geometric_selectivity" -> pore_selectivity(name)
          [] OTHER -> mat[f]]

ingest_mof(raw) ==
    LET candidates == GetOr(raw, "candidates", MOF_NAMES)
        constraints == GetOr(raw, "constraints", EmptyDict)
        known == SelectSeq(candidates, LAMBDA name : name \in DOMAIN MOF_MATERIALS)
    IN [mode |-> "mof_filter",
        candidates |-> [i \in 1..Len(known) |-> mof_candidate(known[i])],
        constraints |-> constraints]

ingest_full(raw, temp_c, co2_ppm) ==
    LET cascade_data == ingest_cascade(raw, temp_c, co2_ppm)
        mof_name == GetOr(raw, "mof", "Fe-BTC")
        mof_entry == IF mof_name \in DOMAIN MOF_MATERIALS THEN MOF_MATERIALS[mof_name]
                     ELSE EmptyDict
        coupling == GetOr(raw, "coherence_coupling", 8)
        irradiance == GetOr(raw, "solar_irradiance_w_m2", 1000)
        area == GetOr(raw, "unit_area_m2", 1)
    IN [mode |-> "full_system",
        cascade |-> cascade_data,
        mof_name |-> mof_name,
        mof_entry |-> mof_entry,
        mof_score |-> IF mof_entry # EmptyDict THEN mof_score(mof_entry) ELSE Q(0, 1),
        coherence_coupling |-> coupling,
        coherence_factor |-> quantum_coherence_factor(temp_c, coupling),
        solar_irradiance_w_m2 |-> irradiance,
        unit_area_m2 |-> area,
        temperature_c |-> temp_c,
        co2_ppm |-> co2_ppm]

photosynthesis_ingest(raw_data) ==
    LET mode == GetOr(raw_data, "mode", "cascade")
        temp_c == GetOr(raw_data, "temperature_c", 25)
        co2_ppm == GetOr(raw_data, "co2_ppm", 415)
    IN IF mode = "cascade" THEN Ok(ingest_cascade(raw_data, temp_c, co2_ppm))
       ELSE IF mode = "mof_filter" THEN Ok(ingest_mof(raw_data))
       ELSE IF mode = "full_system" THEN Ok(ingest_full(raw_data, temp_c, co2_ppm))
       ELSE Ok([error |-> "Unknown mode"])

\* a / b * 1e6 rounded to 3 decimals, by long division, for a >= 0, b > 0
rounded_ppm(a, b) ==
    LET q0 == a \div b
        r0 == a % b
        q1 == (r0 * 1000) \div b
        r1 == (r0 * 1000) % b
        q2 == (r1 * 1000) \div b
        r2 == (r1 * 1000) % b
        q3 == (r2 * 1000) \div b
        r3 == (r2 * 1000) % b
        up == (2 * r3 > b) \/ (2 * r3 = b /\ q3 % 2 = 1)
        m == IF up THEN q3 + 1 ELSE q3
        whole == q0 * PPM + q1 * 1000 + q2
    IN IF m = 1000 THEN [ppm |-> whole + 1, milli |-> 0]
       ELSE [ppm |-> whole, milli |-> m]

\* D(0.1) = 4.785, the size of a thousand of this adapter's dimension units
D_TENTH_E3 == 4785

\* validate(d_values, expected, tolerance_ppm) on dimensions in thousandths
\* of D(0.1); tolerance_ppm divides 1e6
photosynthesis_sum_rule(d_values, expected_sum, tolerance_ppm) ==
    LET actual == SumOf(d_values)
        deviation_ppm == IF expected_sum = 0
                         THEN [ppm |-> Abs(actual) * D_TENTH_E3, milli |-> 0]
                         ELSE rounded_ppm(Abs(actual - expected_sum), Abs(expected_sum))
    IN [valid |-> IF expected_sum = 0 THEN actual = 0
                  ELSE Abs(actual - expected_sum) * (PPM \div tolerance_ppm)
                          <= Abs(expected_sum),
        actual_sum |-> actual,
        expected_sum |-> expected_sum,
        deviation_ppm |-> deviation_ppm,
        tolerance_ppm |-> tolerance_ppm,
        residual |-> actual - expected_sum]

\* max(items, key=lambda s: s["d_value"]): the first item of maximal d_value
max_by_d_value(items) ==
    IF items = <<>> THEN Raise("ValueError")
    ELSE Ok(items[CHOOSE i \in 1..Len(items) :
                    /\ \A j \in 1..Len(items) : items[j].d_value <= items[i].d_value
                    /\ \A j \in 1..(i - 1) : items[j].d_value < items[i].d_value])

RECURSIVE sorted_by_d_value(_)
\* sorted(items, key=lambda s: -s["d_value"]): stable, largest first
sorted_by_d_value(items) ==
    IF items = <<>> THEN <<>>
    ELSE LET rest == sorted_by_d_value(Front(items))
             x == Last(items)
             n == Cardinality({i \in 1..Len(rest) : rest[i].d_value >= x.d_value})
         IN SubSeq(rest, 1, n) \o <<x>> \o SubSeq(rest, n + 1, Len(rest))

cascade_recommendations(steps, bottleneck, d_data, d_gap) ==
    LET bn_name == bottleneck.name
        first == IF bn_name = "carbon_fixation"
                 THEN <<"Carbon fixation (RuBisCO) is the bottleneck.">>
                 ELSE IF bn_name = "photorespiration"
                 THEN <<"Photorespiration wastes energy.">>
                 ELSE IF bn_name = "water_splitting"
                 THEN <<"Water splitting catalyst limits efficiency.">>
                 ELSE <<"Step is the primary bottleneck.">>
        gap == IF d_gap < 0 THEN <<"Target efficiency requires D-reduction.">> ELSE <<>>
        co2 == IF PLess(d_data.co2_sat, PFloat(97, 0))
               THEN <<"CO2 saturation is low. Consider CO2 concentrating.">> ELSE <<>>
        temp == IF PLess(d_data.temp_factor, PFloat(46, 0))
                THEN <<"Temperature correction factor indicates suboptimal conditions.">>
                ELSE <<>>
    IN first \o gap \o co2 \o temp

analyze_cascade(d_data) ==
    LET steps == d_data.steps
        d_overall == d_data.d_overall
        target == d_data.target_efficiency
        d_target == d_data.d_target
        d_values == [i \in 1..Len(steps) |-> steps[i].d_value]
        d_sum == SumOf(d_values)
        sr == photosynthesis_sum_rule(d_values, d_overall, 100)
        consistency == score_from_ppm(sr.deviation_ppm)
        with_pct == [i \in 1..Len(steps) |->
                       [f \in DOMAIN steps[i] \cup {"contribution_pct"} |->
                          IF f = "contribution_pct"
                          THEN (IF d_sum > 0 THEN QNorm(Q(steps[i].d_value * 100, d_sum))
                                ELSE Q(0, 1))
                          ELSE steps[i][f]]]
        bottleneck == max_by_d_value(with_pct)
        d_gap == d_target - d_overall
    IN IF bottleneck.raised THEN bottleneck
       ELSE LET ranked == sorted_by_d_value(with_pct) IN
            Ok(AnalysisResult(
                TRUE,
                [overall_efficiency |-> d_data.overall_efficiency,
                 d_overall |-> d_overall,
                 step_analysis |-> with_pct,
                 bottleneck |-> [step_name |-> bottleneck.val.name,
                                 d_value |-> bottleneck.val.d_value,
                                 efficiency |-> bottleneck.val.efficiency,
                                 contribution_pct |-> bottleneck.val.contribution_pct,
                                 catalyst |-> GetOr(bottleneck.val, "catalyst", "")],
                 sum_rule |-> sr,
                 gap_to_target |->
                    [target |-> target, d_target |-> d_target, d_gap |-> d_gap,
                     improvements_needed |->
                        IF d_gap < 0 THEN <<"Reduce D of the bottleneck.">> ELSE <<>>],
                 env_corrections |-> [temp_factor |-> d_data.temp_factor,
                                      co2_saturation |-> d_data.co2_sat]],
                d_values, consistency,
                [i \in 1..Len(ranked) |->
                    [step |-> ranked[i].name, d_value |-> ranked[i].d_value, rank |-> i]],
                cascade_recommendations(with_pct, bottleneck.val, d_data, d_gap)))

\* the filtered candidates left in input order
unsorted_by_score(items) == items

RECURSIVE sorted_by_score(_)
\* filtered.sort(key=lambda c: -c["score"]): stable, highest score first
sorted_by_score(items) ==
    IF items = <<>> THEN <<>>
    ELSE LET rest == sorted_by_score(Front(items))
             x == Last(items)
             n == Cardinality({i \in 1..Len(rest) : ~QLess(rest[i].score, x.score)})
         IN SubSeq(rest, 1, n) \o <<x>> \o SubSeq(rest, n + 1, Len(rest))

\* round(score, 3)
round3(q) == LET r == Round3(q) IN [whole |-> r.ppm, milli |-> r.milli]

mof_recommendations(filtered, all_cands, constraints) ==
    IF filtered = <<>>
    THEN <<"No MOFs survive the applied constraints.">>
    ELSE LET top == <<"Top candidate.">>
             phi_close == IF \E i \in 1..Len(filtered) : filtered[i].pore_phi_match < 500
                          THEN <<"PHI-optimal pore match.">> ELSE <<>>
             healers == IF \E i \in 1..Len(filtered) : GetOr(filtered[i], "self_healing", FALSE)
                        THEN <<"Self-healing MOFs.">> ELSE <<>>
             removed == IF Len(filtered) < Len(all_cands)
                        THEN <<"Candidates removed by constraints.">> ELSE <<>>
         IN top \o phi_close \o healers \o removed

analyze_mof(d_data) ==
    LET candidates == d_data.candidates
        constraints == d_data.constraints
        f1 == IF GetOr(constraints, "abundant_only", FALSE)
              THEN SelectSeq(candidates, LAMBDA c : GetOr(c, "abundant", FALSE))
              ELSE candidates
        f2 == IF "max_cost_relative" \in DOMAIN constraints
              THEN SelectSeq(f1, LAMBDA c : GetOr(c, "cost_relative", 9990)
                                               <= constraints.max_cost_relative)
              ELSE f1
        f3 == IF "min_selectivity" \in DOMAIN constraints
              THEN SelectSeq(f2, LAMBDA c : GetOr(c, "co2_n2_selectivity", 0)
                                               >= constraints.min_selectivity)
              ELSE f2
        f4 == IF GetOr(constraints, "self_healing", FALSE)
              THEN SelectSeq(f3, LAMBDA c : GetOr(c, "self_healing", FALSE))
              ELSE f3
        filtered == sorted_by_score(f4)
        d_values == [i \in 1..Len(filtered) |-> filtered[i].d_score]
        consistency == IF filtered # <<>> THEN ScoreNano(NANO) ELSE ScoreNano(0)
    IN Ok(AnalysisResult(
            TRUE,
            [mof_ranking |->
                [i \in 1..Len(filtered) |->
                    [name |-> filtered[i].name,
                     score |-> round3(filtered[i].score),
                     d_score |-> filtered[i].d_score,
                     pore_phi_match |-> filtered[i].pore_phi_match,
                     geometric_selectivity |-> filtered[i].geometric_selectivity,
                     co2_capacity_mmol_g |-> filtered[i].co2_capacity_mmol_g,
                     co2_n2_selectivity |-> filtered[i].co2_n2_selectivity,
                     abundant |-> GetOr(filtered[i], "abundant", FALSE),
                     self_healing |-> GetOr(filtered[i], "self_healing", FALSE)]],
             phi_optimal_pore_nm |-> PHI_OPTIMAL_PORE_NM,
             total_candidates |-> Len(candidates),
             after_constraints |-> Len(filtered),
             constraints_applied |-> constraints],
            d_values, consistency,
            [i \in 1..Len(filtered) |->
                [mof |-> filtered[i].name, score |-> filtered[i].score, rank |-> i]],
            mof_recommendations(filtered, candidates, constraints)))

full_recommendations(bottleneck) ==
    LET bn == bottleneck.name
        head == <<"System efficiency and CO2 capture.", "Primary bottleneck.">>
    IN IF bn = "cascade" THEN head \o <<"Photosynthesis cascade limits system.">>
       ELSE IF bn = "mof_capture" THEN head \o <<"MOF capture rate is the bottleneck.">>
       ELSE IF bn = "coherence" THEN head \o <<"Quantum coherence degrades efficiency.">>
       ELSE IF bn = "co2_saturation" THEN head \o <<"CO2 saturation is low.">>
       ELSE head

analyze_full(d_data) ==
    LET cascade == d_data.cascade
        cascade_result == analyze_cascade(cascade)
        cascade_eff == cascade.overall_efficiency
        coherence == d_data.coherence_factor
        temp_fac == temp_correction(d_data.temperature_c)
        co2_sat == co2_factor(d_data.co2_ppm)
        mof_name == d_data.mof_name
        mof_eff == IF d_data.mof_entry # EmptyDict THEN CAPTURE_EFFICIENCY[mof_name]
                   ELSE FZero
        eta_system == PMax(PMul(PMul(PMul(PMul(cascade_eff, mof_eff), coherence),
                                     temp_fac), co2_sat),
                           P_FLOOR)
        d_system == PD(eta_system)
        \* irradiance * area * 12 h * 3600 * eta / 2870e3 * 6 * 0.044 = 3.974 eta
        co2_kg_day == PFloat(eta_system.md - 599, 0)
        sub(name, e) == [name |-> name, efficiency |-> e, d_value |-> PD(PMax(e, P_FLOOR))]
        subsystems == << sub("cascade", cascade_eff), sub("mof_capture", mof_eff),
                         sub("coherence", coherence), sub("temperature", temp_fac),
                         sub("co2_saturation", co2_sat) >>
        system_bottleneck == max_by_d_value(subsystems).val
        d_values == [i \in 1..5 |-> subsystems[i].d_value]
        sr == photosynthesis_sum_rule(d_values, d_system, 1000)
        consistency == score_from_ppm(sr.deviation_ppm)
        ranked == sorted_by_d_value(subsystems)
    IN IF cascade_result.raised THEN cascade_result
       ELSE Ok(AnalysisResult(
                TRUE,
                [overall_efficiency |-> eta_system,
                 d_system |-> d_system,
                 co2_per_m2_day_kg |-> co2_kg_day,
                 subsystems |-> subsystems,
                 bottleneck |-> [subsystem |-> system_bottleneck.name,
                                 d_value |-> system_bottleneck.d_value,
                                 efficiency |-> system_bottleneck.efficiency],
                 mof |-> [name |-> mof_name, score |-> round3(d_data.mof_score),
                          capture_efficiency |-> mof_eff],
                 coherence |-> [factor |-> coherence,
                                coupling |-> d_data.coherence_coupling,
                                temp_stable |-> PLess(PFloat(301, 0), coherence)],
                 cascade_detail |-> cascade_result.val.data,
                 sum_rule |-> sr],
                d_values, consistency,
                [i \in 1..Len(ranked) |->
                    [subsystem |-> ranked[i].name, d_value |-> ranked[i].d_value,
                     rank |-> i]],
                full_recommendations(system_bottleneck)))

photosynthesis_analyze(d_data) ==
    IF "error" \in DOMAIN d_data
    THEN Ok(AnalysisResult(FALSE, d_data, <<>>, ScoreNano(0), <<>>, <<d_data.error>>))
    ELSE IF d_data.mode = "cascade" THEN analyze_cascade(d_data)
    ELSE IF d_data.mode = "mof_filter" THEN analyze_mof(d_data)
    ELSE IF d_data.mode = "full_system" THEN analyze_full(d_data)
    ELSE Ok(AnalysisResult(FALSE, d_data, <<>>, ScoreNano(0), <<>>, <<"Unknown mode">>))

photosynthesis_report(result) ==
    LET data == result.data
        mode == IF "mode" \in DOMAIN data THEN data.mode
                ELSE IF "subsystems" \in DOMAIN data THEN "full_system"
                ELSE IF "mof_ranking" \in DOMAIN data THEN "mof_filter"
                ELSE "cascade"
        base == [adapter |-> "photosynthesis",
                 mode |-> mode,
                 success |-> result.success,
                 consistency_score |-> round6(result.consistency_score),
                 recommendations |-> result.recommendations]
        more == IF mode = "cascade"
                THEN [overall_efficiency |->
                         [value |-> GetOr(data, "overall_efficiency", None),
                          d_value |-> GetOr(data, "d_overall", None)],
                      step_analysis |-> GetOr(data, "step_analysis", <<>>),
                      bottleneck |-> GetOr(data, "bottleneck", EmptyDict),
                      gap_to_target |-> GetOr(data, "gap_to_target", EmptyDict),
                      sum_rule |-> GetOr(data, "sum_rule", EmptyDict),
                      env_corrections |-> GetOr(data, "env_corrections", EmptyDict)]
                ELSE IF mode = "mof_filter"
                THEN [mof_ranking |-> GetOr(data, "mof_ranking", <<>>),
                      phi_optimal_pore_nm |-> GetOr(data, "phi_optimal_pore_nm", None),
                      total_candidates |-> GetOr(data, "total_candidates", None),
                      after_constraints |-> GetOr(data, "after_constraints", None)]
                ELSE IF mode = "full_system"
                THEN [overall_efficiency |-> GetOr(data, "overall_efficiency", None),
                      d_system |-> GetOr(data, "d_system", None),
                      co2_per_m2_day_kg |-> GetOr(data, "co2_per_m2_day_kg", None),
                      subsystems |-> GetOr(data, "subsystems", <<>>),
                      bottleneck |-> GetOr(data, "bottleneck", EmptyDict),
                      mof |-> GetOr(data, "mof", EmptyDict),
                      coherence |-> GetOr(data, "coherence", EmptyDict),
                      sum_rule |-> GetOr(data, "sum_rule", EmptyDict)]
                ELSE EmptyDict
    IN [f \in DOMAIN base \cup DOMAIN more |->
           IF f \in DOMAIN more THEN more[f] ELSE base[f]]

\* ----------------------------------------------------------------
\* engine.py: PhiEngine.run with the three adapters registered
ADAPTERS == {"calibration", "sensor_fusion", "photosynthesis"}
adapter_ingest(name, data) ==
    IF name = "calibration" THEN calibration_ingest(data)
    ELSE IF name = "sensor_fusion" THEN sensor_fusion_ingest(data)
    ELSE photosynthesis_ingest(data)
adapter_analyze(name, d_data) ==
    IF name = "calibration" THEN calibration_analyze(d_data)
    ELSE IF name = "sensor_fusion" THEN sensor_fusion_analyze(d_data)
    ELSE photosynthesis_analyze(d_data)
adapter_report(name, result) ==
    IF name = "calibration" THEN calibration_report(result)
    ELSE IF name = "sensor_fusion" THEN sensor_fusion_report(result)
    ELSE photosynthesis_report(result)

engine_run(adapter_name, data) ==
    IF adapter_name \notin ADAPTERS THEN Ok([error |-> "Adapter not registered"])
    ELSE LET ingested == adapter_ingest(adapter_name, data) IN
         IF ingested.raised THEN ingested
         ELSE LET result == adapter_analyze(adapter_name, ingested.val) IN
              IF result.raised THEN result
              ELSE Ok(adapter_report(adapter_name, result.val))

\* ----------------------------------------------------------------
\* constants_db.py.  A name is kept as the sequence of its characters, a
\* value in thousandths (rounded), a deviation in tenths of a ppm.
ConstantEntry(name, sector, value, deviation_ppm) ==
    [name |-> name, sector |-> sector, value |-> value, deviation_ppm |-> deviation_ppm]
\* _DB = _build_db(), in construction order
DB_TABLE ==
    <<
       ConstantEntry(<<"1", "/", "a", "l", "p", "h", "a", "_", "e", "m">>, "core", 137036, 21),
       ConstantEntry(<<"s", "i", "n", "2", "_", "t", "h", "e", "t", "a", "_", "W">>, "core", 231, 2752),
       ConstantEntry(<<"P", "H", "I">>, "core", 1618, 0),
       ConstantEntry(<<"O", "M", "E", "G", "A">>, "core", 618, 0),
       ConstantEntry(<<"B", "E", "T", "A">>, "core", 236, 0),
       ConstantEntry(<<"G", "A", "M", "M", "A">>, "core", 146, 0),
       ConstantEntry(<<"G", "E", "N", "E", "S", "I", "S">>, "core", 2, 26),
       ConstantEntry(<<"L", "a", "m", "b", "d", "a", "_", "Q", "C", "D">>, "qcd", 1092005, 40322800),
       ConstantEntry(<<"m", "a", "s", "s", "_", "g", "a", "p">>, "qcd", 43215077, 242719749),
       ConstantEntry(<<"b", "e", "t", "a", "_", "0", "_", "Q", "C", "D">>, "qcd", 9000, 0),
       ConstantEntry(<<"M", "_", "Z">>, "electroweak", 91188, 0),
       ConstantEntry(<<"M", "_", "W">>, "electroweak", 80379, 1219),
       ConstantEntry(<<"M", "_", "H">>, "electroweak", 125250, 0),
       ConstantEntry(<<"O", "m", "e", "g", "a", "_", "D", "M">>, "cosmology", 270, 356732),
       ConstantEntry(<<"O", "m", "e", "g", "a", "_", "D", "E">>, "cosmology", 680, 129191),
       ConstantEntry(<<"O", "m", "e", "g", "a", "_", "b">>, "cosmology", 50, 288066),
       ConstantEntry(<<"r", "h", "o", "_", "p", "a", "r", "a", "m", "e", "t", "e", "r">>, "electroweak", 1000, 3998),
       ConstantEntry(<<"G", "_", "F">>, "electroweak", 0, 0),
       ConstantEntry(<<"H", "_", "0">>, "cosmology", 67400, 0),
       ConstantEntry(<<"O", "m", "e", "g", "a", "_", "t", "o", "t", "a", "l">>, "cosmology", 1000, 0),
       ConstantEntry(<<"m", "_", "p", "r", "o", "t", "o", "n">>, "fermion", 938, 0),
       ConstantEntry(<<"m", "_", "e", "l", "e", "c", "t", "r", "o", "n">>, "fermion", 1, 0),
       ConstantEntry(<<"m", "_", "p", "/", "m", "_", "e">>, "fermion", 1836149, 8),
       ConstantEntry(<<"m", "_", "t", "a", "u", "/", "m", "_", "e">>, "fermion", 3477480, 719),
       ConstantEntry(<<"m", "_", "m", "u", "/", "m", "_", "e">>, "fermion", 206768, 0),
       ConstantEntry(<<"s", "i", "n", "2", "_", "t", "h", "e", "t", "a", "_", "1", "2">>, "mixing", 306, 37161),
       ConstantEntry(<<"s", "i", "n", "2", "_", "t", "h", "e", "t", "a", "_", "2", "3">>, "mixing", 545, 0),
       ConstantEntry(<<"s", "i", "n", "2", "_", "t", "h", "e", "t", "a", "_", "1", "3">>, "mixing", 22, 87255),
       ConstantEntry(<<"a", "l", "p", "h", "a", "_", "G", "U", "T">>, "gut", 40, 0),
       ConstantEntry(<<"s", "i", "n", "2", "_", "t", "h", "e", "t", "a", "_", "W", "_", "G", "U", "T">>, "gut", 375, 0),
       ConstantEntry(<<"B", "1">>, "core", 27000, 0),
       ConstantEntry(<<"B", "2">>, "core", 42000, 0),
       ConstantEntry(<<"B", "3">>, "core", 60000, 0),
       ConstantEntry(<<"B", "4">>, "core", 75000, 0),
       ConstantEntry(<<"B", "5">>, "core", 97000, 0),
       ConstantEntry(<<"B", "6">>, "core", 117000, 0),
       ConstantEntry(<<"B", "7">>, "core", 139000, 0),
       ConstantEntry(<<"B", "8">>, "core", 154000, 0),
       ConstantEntry(<<"B", "9">>, "core", 172000, 0),
       ConstantEntry(<<"B", "1", "0">>, "core", 187000, 0),
       ConstantEntry(<<"L", "1">>, "core", 1000, 0),
       ConstantEntry(<<"L", "2">>, "core", 3000, 0),
       ConstantEntry(<<"L", "3">>, "core", 4000, 0),
       ConstantEntry(<<"L", "4">>, "core", 7000, 0),
       ConstantEntry(<<"L", "5">>, "core", 11000, 0),
       ConstantEntry(<<"L", "6">>, "core", 18000, 0),
       ConstantEntry(<<"L", "7">>, "core", 29000, 0),
       ConstantEntry(<<"L", "8">>, "core", 47000, 0),
       ConstantEntry(<<"L", "9">>, "core", 76000, 0),
       ConstantEntry(<<"L", "1", "0">>, "core", 123000, 0),
       ConstantEntry(<<"L", "1", "1">>, "core", 199000, 0),
       ConstantEntry(<<"L", "1", "2">>, "core", 322000, 0),
       ConstantEntry(<<"T", "O", "T", "A", "L", "_", "S", "T", "A", "T", "E", "S">>, "core", 840000, 0)
    >>
UPPERCASE ==
    <<"A", "B", "C", "D", "E", "F", "G", "H", "I", "J", "K", "L", "M", "N", "O", "P", "Q", "R", "S", "T", "U", "V", "W", "X", "Y", "Z">>
LOWERCASE ==
    <<"a", "b", "c", "d", "e", "f", "g", "h", "i", "j", "k", "l", "m", "n", "o", "p", "q", "r", "s", "t", "u", "v", "w", "x", "y", "z">>
\* str.lower()
lower_char(c) ==
    IF \E i \in 1..Len(UPPERCASE) : UPPERCASE[i] = c
    THEN LOWERCASE[CHOOSE i \in 1..Len(UPPERCASE) : UPPERCASE[i] = c]
    ELSE c
str_lower(str) == [i \in 1..Len(str) |-> lower_char(str[i])]
\* q in str
contains(q, str) ==
    \E k \in 0..(Len(str) - Len(q)) : SubSeq(str, k + 1, k + Len(q)) = q
\* ConstantsDB.__init__: self._constants = list(_DB), a new list of the
\* shared entries, kept as their positions in _DB
new_constants == [i \in 1..Len(DB_TABLE) |-> i]
\* bool(sector) and bool(query) of the optional arguments of search
sector_given(a) == a.has /\ a.v # ""
query_given(a) == a.has /\ a.v # <<>>

\* the position in _DB of the entry get returns, 0 for None
get_index(tbl, cs, name) ==
    IF \E k \in 1..Len(cs) : tbl[cs[k]].name = name
    THEN cs[CHOOSE k \in 1..Len(cs) :
                /\ tbl[cs[k]].name = name
                /\ \A j \in 1..(k - 1) : tbl[cs[j]].name # name]
    ELSE 0
get(tbl, cs, name) ==
    LET i == get_index(tbl, cs, name) IN
    IF i = 0 THEN Ok(None) ELSE Ok(tbl[i])

search_indices_case_sensitive(tbl, cs, sector, query) ==
    LET r1 == IF sector_given(sector) THEN SelectSeq(cs, LAMBDA i : tbl[i].sector = sector.v)
              ELSE cs
    IN IF query_given(query)
       THEN SelectSeq(r1, LAMBDA i : contains(str_lower(query.v), tbl[i].name))
       ELSE r1
search_indices(tbl, cs, sector, query) ==
    LET r1 == IF sector_given(sector) THEN SelectSeq(cs, LAMBDA i : tbl[i].sector = sector.v)
              ELSE cs
    IN IF query_given(query)
       THEN SelectSeq(r1, LAMBDA i : contains(str_lower(query.v), str_lower(tbl[i].name)))
       ELSE r1
search(tbl, cs, sector, query) ==
    LET idx == search_indices(tbl, cs, sector, query) IN
    Ok([k \in 1..Len(idx) |-> tbl[idx[k]]])

RECURSIVE sorted_by_deviation(_, _)
\* list.sort(key=lambda c: c["deviation_ppm"]): stable, smallest first
sorted_by_deviation(tbl, idx) ==
    IF idx = <<>> THEN <<>>
    ELSE LET rest == sorted_by_deviation(tbl, Front(idx))
             x == Last(idx)
             n == Cardinality({i \in 1..Len(rest) :
                                 tbl[rest[i]].deviation_ppm <= tbl[x].deviation_ppm})
         IN SubSeq(rest, 1, n) \o <<x>> \o SubSeq(rest, n + 1, Len(rest))
\* lst[:n]
slice_to(lst, n) ==
    IF n >= 0 THEN SubSeq(lst, 1, IF n < Len(lst) THEN n ELSE Len(lst))
    ELSE SubSeq(lst, 1, IF Len(lst) + n > 0 THEN Len(lst) + n ELSE 0)
best_prediction_indices_unfiltered(tbl, cs, n) ==
    slice_to(sorted_by_deviation(tbl, cs), n)
best_prediction_indices(tbl, cs, n) ==
    LET non_exact == SelectSeq(cs, LAMBDA i : tbl[i].deviation_ppm > 0) IN
    slice_to(sorted_by_deviation(tbl, non_exact), n)
best_predictions(tbl, cs, n) ==
    LET idx == best_prediction_indices(tbl, cs, n) IN
    Ok([k \in 1..Len(idx) |-> tbl[idx[k]]])

\* round(a / b), halves to the even neighbour, for a >= 0 and b > 0
round_div(a, b) ==
    LET q == a \div b
        r == a % b
    IN IF 2 * r > b \/ (2 * r = b /\ q % 2 = 1) THEN q + 1 ELSE q
\* the sectors in the order sorted() gives them
SECTOR_ORDER ==
    <<"core", "cosmology", "edited", "electroweak", "fermion", "gut", "mixing", "qcd">>
scorecard(tbl, cs) ==
    LET non_exact == SelectSeq(cs, LAMBDA i : tbl[i].deviation_ppm > 0)
        ppms == [k \in 1..Len(non_exact) |-> tbl[non_exact[k]].deviation_ppm]
        present == {tbl[cs[k]].sector : k \in 1..Len(cs)}
    IN Ok([total_constants |-> Len(cs),
           non_exact |-> Len(non_exact),
           min_ppm |-> IF ppms = <<>> THEN 0
                       ELSE CHOOSE m \in Range(ppms) : \A x \in Range(ppms) : m <= x,
           max_ppm |-> IF ppms = <<>> THEN 0
                       ELSE CHOOSE m \in Range(ppms) : \A x \in Range(ppms) : m >= x,
           mean_ppm |-> IF ppms = <<>> THEN 0 ELSE round_div(SumOf(ppms), Len(ppms)),
           sectors |-> [sec \in present |->
                          Cardinality({k \in 1..Len(cs) : tbl[cs[k]].sector = sec})]])
sectors(tbl, cs) ==
    Ok(SelectSeq(SECTOR_ORDER, LAMBDA sec : \E k \in 1..Len(cs) : tbl[cs[k]].sector = sec))
\* one comparison of validate_against, for an integer experimental value
comparison(tbl, cs, item) ==
    LET i == get_index(tbl, cs, item.name) IN
    IF i = 0 THEN [name |-> item.name, error |-> "not found"]
    ELSE [name |-> item.name,
          predicted |-> tbl[i].value,
          experimental |-> item.exp_val,
          deviation_ppm |->
             IF item.exp_val # 0
             THEN round_div(Abs(tbl[i].value - 1000 * item.exp_val) * 10000,
                            Abs(item.exp_val))
             ELSE 0]
validate_against(tbl, cs, experimental) ==
    Ok([comparisons |->
           [k \in 1..Len(experimental) |-> comparison(tbl, cs, experimental[k])]])

\* The entry of _DB that a record handed to the caller shares its dict with,
\* 0 for none: get, search and best_predictions hand out dict(c), a new dict
\* (lines 333, 344, 351), and validate_against and scorecard build their own.
copied_from_shared(i) == i
copied_from(i) == 0
records_handed_out(idx) == [k \in 1..Len(idx) |-> copied_from(idx[k])]
\* a write of the caller to a record it was handed
edited(entry, field) ==
    IF field = "deviation_ppm" THEN [entry EXCEPT !.deviation_ppm = 0]
    ELSE IF field = "sector" THEN [entry EXCEPT !.sector = "edited"]
    ELSE [entry EXCEPT !.name = <<"x">>]

\* ----------------------------------------------------------------
\* Inputs.
PositiveFloats == {Pow2(x) : x \in DBL_MIN_EXP..DBL_MAX_EXP}
NonPositiveFloats ==
    {FZero, FInf(0 - 1)} \cup {FFin(0 - 1, 0, x) : x \in {DBL_MIN_EXP, 0 - 1, 0, 1, DBL_MAX_EXP}}
Floats == PositiveFloats \cup NonPositiveFloats
\* the floats that lists are made of
ListFloats ==
    {FZero, FFin(0 - 1, 0, 0), Pow2(DBL_MIN_EXP), Pow2(0 - 1), Pow2(0), Pow2(DBL_MAX_EXP)}
SeqsUpTo(S, n) == UNION {[1..m -> S] : m \in 0..n}
FloatLists == SeqsUpTo(ListFloats, MaxLen)
CoefficientLists == SeqsUpTo((0 - NegCoef)..MaxCoef, MaxCoefLen)
ExpectedSums == (0 - 1)..MaxExpected
\* tolerances in thousandths of a ppm: -1, 0, 100 (the default), 333333.333
\* and 500000 ppm
Tolerances == {0 - 1000, 0, 100000, 333333333, 500000000}
DecomposerInts == (0 - NegN)..MaxN
SequenceArgs == (0 - NegSeqArg)..MaxSeqArg
\* the anchor integers, and integers below, at, around and above the mirror
MirrorInts ==
    Range(BRAHIM_NUMBERS) \cup {0 - 1, 0, 107, MIRROR_CONSTANT, MIRROR_CONSTANT + 1}
MirrorLists == SeqsUpTo(MirrorInts, MaxMirrorLen)
DenominatorLists == SeqsUpTo((0 - 1)..MaxDen, MaxRankLen)
Payloads == {[values |-> l] : l \in FloatLists} \cup {EmptyDict}
\* the doubles within MaxLo of a multiple of 2^53
WideValues ==
    {w \in {WNum(hi, lo) : hi \in (0 - MaxHi)..MaxHi, lo \in (0 - MaxLo)..MaxLo} :
        FlRound(w.hi, w.lo) = w}
WideLists == SeqsUpTo(WideValues, MaxWideLen)

\* A payload is a dict whose keys may each be absent: Opt(S) is an absent
\* key or a value of S, and Dict keeps the keys that are present.
Opt(S) == {[has |-> FALSE]} \cup {[has |-> TRUE, v |-> x] : x \in S}
Dict(o) == [k \in {f \in DOMAIN o : o[f].has} |-> o[k].v]
\* readings and references: 0.0, -1.0 and powers of two whose dimensions and
\* their means are exact in floating point
ReadingFloats == {FZero, Pow2(0 - 2), Pow2(0), Pow2(1)}
ReferenceFloats == {FZero, FFin(0 - 1, 0, 0), Pow2(0), Pow2(1)}
CalibrationPayloads ==
    {Dict(o) : o \in [readings : Opt(SeqsUpTo(ReadingFloats, MaxReadings)),
                      reference : Opt(ReferenceFloats)]}
SensorFloats == {FZero, Pow2(0), Pow2(1)}
Sensors ==
    {Dict(o) : o \in [readings : Opt(SeqsUpTo(SensorFloats, MaxSensorReadings)),
                      weight : Opt({2})]}
SensorFusionPayloads ==
    {Dict(o) : o \in [sensors : Opt(SeqsUpTo(Sensors, MaxSensors)),
                      reference : Opt({FZero, Pow2(0)})]}
\* efficiencies: 0.1 and the double just above it (of equal dimension), 0.5,
\* 2.0, 0.0 and 1e-11
StepEfficiencies ==
    {PFloat(1000, 0), PFloat(1000, 1), PFloat(301, 0), PFloat(0 - 301, 0), FZero,
     PFloat(11000, 0)}
Steps ==
    {Dict(o) : o \in [name : Opt({"carbon_fixation", "dark_step"}),
                      efficiency : Opt(StepEfficiencies)]}
StepLists == SeqsUpTo(Steps, MaxSteps)
CascadePayloads ==
    {Dict(o) : o \in [mode : Opt({"cascade"}),
                      steps : Opt(StepLists),
                      target_efficiency : Opt({PFloat(301, 0)}),
                      temperature_c : Opt({35}),
                      co2_ppm : Opt({40000})]}
FullSystemPayloads ==
    {Dict(o) : o \in [mode : {[has |-> TRUE, v |-> "full_system"]},
                      steps : Opt(StepLists),
                      mof : Opt({"ZIF-8", "no_such_mof"}),
                      coherence_coupling : Opt({0})]}
CandidateNames == {"ZIF-8", "UiO-66", "Fe-BTC", "COF-300", "no_such_mof"}
Constraints ==
    {Dict(o) : o \in [abundant_only : Opt({TRUE}),
                      self_healing : Opt(BOOLEAN),
                      max_cost_relative : Opt({10, 13}),
                      min_selectivity : Opt({18, 30})]}
MofFilterPayloads ==
    {Dict(o) : o \in [mode : {[has |-> TRUE, v |-> "mof_filter"]},
                      candidates : Opt(SeqsUpTo(CandidateNames, MaxCandidates)),
                      constraints : Opt(Constraints)]}
PhotosynthesisPayloads ==
    CascadePayloads \cup FullSystemPayloads \cup MofFilterPayloads
        \cup {[mode |-> "no_such_mode"]}
AdapterPayloads(name) ==
    IF name = "calibration" THEN CalibrationPayloads
    ELSE IF name = "sensor_fusion" THEN SensorFusionPayloads
    ELSE PhotosynthesisPayloads
\* the ingested records handed to analyze: those ingest returns, and records
\* a caller marks with an error of its own
ErrorRecords ==
    {[error |-> "No readings provided", d_readings |-> <<>>, d_ref |-> DFin(0)],
     [error |-> "No sensors provided", sensor_data |-> <<>>],
     [error |-> "Unknown mode"],
     [error |-> "caller's message", mode |-> "mof_filter"]}
IngestedRecords(name) ==
    {adapter_ingest(name, p).val : p \in AdapterPayloads(name)} \cup ErrorRecords

\* the arguments of the queries of ConstantsDB
LookupNames == {DB_TABLE[i].name : i \in 1..Len(DB_TABLE)} \cup {<<"n", "o", "p", "e">>}
SectorArgs == Opt({"", "core", "gut", "qcd", "nope"})
QueryArgs ==
    Opt({<<>>, <<"s", "i", "n">>, <<"S", "I", "N", "2">>, <<"o", "m", "e", "g", "a">>,
         <<"b">>, <<"1">>, <<"_", "W">>, <<"z", "z", "z">>})
BestCounts == (0 - NegBest)..MaxBest
\* names whose value is a whole number of thousandths, and one unknown name
ComparedNames == {<<"B", "1">>, <<"L", "1">>, <<"M", "_", "H">>, <<"n", "o", "p", "e">>}
Experimentals ==
    SeqsUpTo({[name |-> nm, exp_val |-> v] : nm \in ComparedNames, v \in {0, 1, 27}},
             MaxCompared)

\* ----------------------------------------------------------------
\* The state machine.
Init ==
    /\ pc = "idle"
    /\ op = "none"
    /\ arg = <<>>
    /\ ret = <<>>
    /\ tables = [NATURAL_STEPS |-> NATURAL_STEPS, MOF_MATERIALS |-> MOF_MATERIALS]
    /\ log = <<>>
    /\ db = DB_TABLE
    /\ constants_of = <<>>
    /\ held = <<>>
    /\ edits = 0
    /\ adapters = <<>>
    /\ registrations = <<>>
    /\ calls = <<>>
    /\ users = <<>>
    /\ today = 1
    /\ performed = <<>>
    /\ payments = <<>>
    /\ webhook = [loaded |-> FALSE, WEBHOOK_SECRET |-> ""]

Call(name, a, r) ==
    /\ pc' = "done"
    /\ op' = name
    /\ arg' = a
    /\ ret' = r
    /\ UNCHANGED <<tables, log, db, constants_of, held, edits, engine_vars, demo_vars>>

Call_D ==
    /\ pc = "idle"
    /\ \E x \in Floats :
          Call("D", x, D(x))

Call_Energy ==
    /\ pc = "idle"
    /\ \E x \in Floats :
          Call("Energy", x, Energy(x))

Call_roundtrip ==
    /\ pc = "idle"
    /\ \E x \in PositiveFloats :
          Call("roundtrip", x, roundtrip(x))

Call_full_check ==
    /\ pc = "idle"
    /\ \E x \in Floats :
          Call("full_check", x, full_check(x))

Call_transform ==
    /\ pc = "idle"
    /\ \E l \in FloatLists :
          Call("transform", l, transform(l))

Call_energy ==
    /\ pc = "idle"
    /\ \E l \in FloatLists :
          Call("energy", l, energy(l))

Call_roundtrip_list ==
    /\ pc = "idle"
    /\ \E l \in FloatLists :
          Call("roundtrip_list", l, roundtrip_list(l))

Call_report ==
    /\ pc = "idle"
    /\ \E data \in Payloads :
          Call("report", data, report(data))

Call_fibonacci_factors ==
    /\ pc = "idle"
    /\ \E n \in DecomposerInts :
          Call("fibonacci_factors", n, fibonacci_factors(n))

Call_fib ==
    /\ pc = "idle"
    /\ \E n \in SequenceArgs :
          Call("fib", n, fib(n))

Call_lucas ==
    /\ pc = "idle"
    /\ \E n \in SequenceArgs :
          Call("lucas", n, lucas(n))

Call_mirror_symmetry ==
    /\ pc = "idle"
    /\ \E values \in MirrorLists :
          Call("mirror_symmetry", values, mirror_symmetry(values))

Call_gut_decomposition ==
    /\ pc = "idle"
    /\ \E n \in DecomposerInts :
          Call("gut_decomposition", n, engine_decompose(n))

Call_hierarchy_rank ==
    /\ pc = "idle"
    /\ \E l \in DenominatorLists :
          Call("hierarchy_rank", l, engine_hierarchy(l))

Call_validate ==
    /\ pc = "idle"
    /\ \E c \in CoefficientLists : \E e \in ExpectedSums : \E t \in Tolerances :
          Call("validate", [c |-> c, expected |-> e, tol |-> t], engine_validate(c, e, t))

Call_find_missing ==
    /\ pc = "idle"
    /\ \E c \in WideLists : \E t \in WideValues : \E compensated \in BOOLEAN :
          Call("find_missing", [c |-> c, target |-> t, compensated |-> compensated],
               find_missing(c, t, compensated))

\* adapter.analyze(d_data), then adapter.report of its result
analyze_and_report(name, d_data) ==
    LET result == adapter_analyze(name, d_data) IN
    IF result.raised THEN result
    ELSE Ok([result |-> result.val, report |-> adapter_report(name, result.val)])

Call_analyze ==
    /\ pc = "idle"
    /\ \E name \in ADAPTERS : \E d_data \in IngestedRecords(name) :
          Call("analyze", [adapter |-> name, d_data |-> d_data],
               analyze_and_report(name, d_data))

Call_run ==
    /\ pc = "idle"
    /\ \E name \in ADAPTERS \cup {"no_such_adapter"} : \E data \in AdapterPayloads(name) :
          Call("run", [adapter |-> name, data |-> data], engine_run(name, data))

Return ==
    /\ pc = "done"
    /\ pc' = "idle"
    /\ op' = "none"
    /\ arg' = <<>>
    /\ ret' = <<>>
    /\ UNCHANGED <<tables, log, db, constants_of, held, edits, engine_vars, demo_vars>>

Next ==
    \/ Call_D
    \/ Call_Energy
    \/ Call_roundtrip
    \/ Call_full_check
    \/ Call_transform
    \/ Call_energy
    \/ Call_roundtrip_list
    \/ Call_report
    \/ Call_fibonacci_factors
    \/ Call_fib
    \/ Call_lucas
    \/ Call_mirror_symmetry
    \/ Call_gut_decomposition
    \/ Call_hierarchy_rank
    \/ Call_validate
    \/ Call_find_missing
    \/ Call_analyze
    \/ Call_run
    \/ Return

Spec == Init /\ [][Next]_vars

\* ----------------------------------------------------------------
\* Runs of the engine one after the other, on the shared tables.  `tables`
\* holds the module-level NATURAL_STEPS and MOF_MATERIALS, `log` the runs so
\* far: the payload as the caller handed it in, the payload as the run left
\* it, and the outcome.

\* The object a write to the i-th ingested step lands in.  _ingest_cascade
\* builds a new dict for each step (lines 101-106), so the write of
\* contribution_pct in _analyze_cascade (lines 213-216) reaches neither the
\* payload's step nor the step of NATURAL_STEPS it was read from.
ingested_step_shared(raw, i) ==
    IF "steps" \in DOMAIN raw THEN "payload" ELSE "NATURAL_STEPS"
ingested_step_owner(raw, i) == "ingested"

\* the steps held by `owner` after _analyze_cascade has written analysed[i]
\* into the i-th ingested step
steps_after_run(owner, steps, raw, analysed) ==
    [i \in 1..Len(steps) |->
        IF i <= Len(analysed) /\ ingested_step_owner(raw, i) = owner
        THEN [f \in DOMAIN steps[i] \cup {"contribution_pct"} |->
                IF f = "contribution_pct" THEN analysed[i].contribution_pct
                ELSE steps[i][f]]
        ELSE steps[i]]

\* engine.run(name, data) with the tables as they are: the outcome, the
\* caller's payload and the tables after the run
run_on(tbls, name, data) ==
    LET cascade == /\ name = "photosynthesis"
                   /\ GetOr(data, "mode", "cascade") \in {"cascade", "full_system"}
        reads_table == cascade /\ "steps" \notin DOMAIN data
        resolved == [f \in DOMAIN data \cup (IF reads_table THEN {"steps"} ELSE {}) |->
                        IF reads_table /\ f = "steps" THEN tbls.NATURAL_STEPS
                        ELSE data[f]]
        ingested == adapter_ingest(name, resolved)
        result == adapter_analyze(name, ingested.val)
        analysed == IF ~cascade \/ result.raised THEN <<>>
                    ELSE IF "cascade_detail" \in DOMAIN result.val.data
                    THEN result.val.data.cascade_detail.step_analysis
                    ELSE result.val.data.step_analysis
    IN [outcome |-> engine_run(name, resolved),
        data |-> IF cascade /\ "steps" \in DOMAIN data
                 THEN [data EXCEPT !.steps = steps_after_run("payload", @, data, analysed)]
                 ELSE data,
        tables |-> IF reads_table
                   THEN [tbls EXCEPT !.NATURAL_STEPS =
                                        steps_after_run("NATURAL_STEPS", @, data, analysed)]
                   ELSE tbls]

\* the payloads of the runs
RunPayloads(name) ==
    IF name = "calibration"
    THEN {EmptyDict, [readings |-> <<Pow2(0), Pow2(1)>>, reference |-> Pow2(0)]}
    ELSE IF name = "sensor_fusion"
    THEN {EmptyDict, [sensors |-> <<[readings |-> <<Pow2(0), Pow2(1)>>]>>]}
    ELSE {EmptyDict,
          [mode |-> "full_system"],
          [mode |-> "mof_filter"],
          [mode |-> "mof_filter", constraints |-> [self_healing |-> TRUE]],
          [mode |-> "no_such_mode"],
          [steps |-> <<>>],
          [steps |-> <<[name |-> "carbon_fixation", efficiency |-> PFloat(1000, 0)],
                       [name |-> "dark_step", efficiency |-> PFloat(301, 0)]>>],
          [mode |-> "full_system", mof |-> "ZIF-8",
           steps |-> <<[name |-> "dark_step", efficiency |-> PFloat(301, 0)]>>]}

Run ==
    /\ Len(log) < MaxRuns
    /\ \E name \in ADAPTERS : \E data \in RunPayloads(name) :
          \E after \in {run_on(tables, name, data)} :
          /\ log' = Append(log, [adapter |-> name, data |-> data,
                                 data_after |-> after.data, outcome |-> after.outcome])
          /\ tables' = after.tables
    /\ UNCHANGED <<pc, op, arg, ret, db, constants_of, held, edits, engine_vars, demo_vars>>

NextRuns == Run

SpecRuns == Init /\ [][NextRuns]_vars

\* ----------------------------------------------------------------
\* Queries of ConstantsDB instances.  `db` holds the entries of _DB, which
\* every instance shares, `constants_of` the list of each instance, `held`
\* what the caller was handed by the last query (for each record the entry
\* it shares its dict with) and `edits` counts the caller's writes.
NewInstance ==
    /\ pc = "idle"
    /\ Len(constants_of) < MaxInstances
    /\ constants_of' = Append(constants_of, new_constants)
    /\ UNCHANGED <<pc, op, arg, ret, tables, log, db, held, edits, engine_vars, demo_vars>>

CallDB(name, a, r, handed) ==
    /\ pc' = "done"
    /\ op' = name
    /\ arg' = a
    /\ ret' = r
    /\ held' = handed
    /\ UNCHANGED <<tables, log, db, constants_of, edits, engine_vars, demo_vars>>

Call_get ==
    /\ pc = "idle"
    /\ \E inst \in 1..Len(constants_of) : \E name \in LookupNames :
          LET i == get_index(db, constants_of[inst], name) IN
          CallDB("get", [inst |-> inst, name |-> name],
                 get(db, constants_of[inst], name),
                 IF i = 0 THEN <<>> ELSE records_handed_out(<<i>>))

Call_search ==
    /\ pc = "idle"
    /\ \E inst \in 1..Len(constants_of) : \E sector \in SectorArgs : \E query \in QueryArgs :
          CallDB("search", [inst |-> inst, sector |-> sector, query |-> query],
                 search(db, constants_of[inst], sector, query),
                 records_handed_out(search_indices(db, constants_of[inst], sector, query)))

Call_best_predictions ==
    /\ pc = "idle"
    /\ \E inst \in 1..Len(constants_of) : \E n \in BestCounts :
          CallDB("best_predictions", [inst |-> inst, n |-> n],
                 best_predictions(db, constants_of[inst], n),
                 records_handed_out(best_prediction_indices(db, constants_of[inst], n)))

Call_scorecard ==
    /\ pc = "idle"
    /\ \E inst \in 1..Len(constants_of) :
          CallDB("scorecard", [inst |-> inst], scorecard(db, constants_of[inst]), <<>>)

Call_sectors ==
    /\ pc = "idle"
    /\ \E inst \in 1..Len(constants_of) :
          CallDB("sectors", [inst |-> inst], sectors(db, constants_of[inst]), <<>>)

Call_validate_against ==
    /\ pc = "idle"
    /\ \E inst \in 1..Len(constants_of) : \E experimental \in Experimentals :
          CallDB("validate_against", [inst |-> inst, experimental |-> experimental],
                 validate_against(db, constants_of[inst], experimental), <<>>)

\* the caller writes to a record it holds
Modify ==
    /\ pc = "done"
    /\ edits < MaxEdits
    /\ \E k \in 1..Len(held) : \E field \in {"deviation_ppm", "sector", "name"} :
          db' = IF held[k] = 0 THEN db
                ELSE [db EXCEPT ![held[k]] = edited(@, field)]
    /\ edits' = edits + 1
    /\ UNCHANGED <<pc, op, arg, ret, tables, log, constants_of, held, engine_vars, demo_vars>>

NextDB ==
    \/ NewInstance
    \/ Call_get
    \/ Call_search
    \/ Call_best_predictions
    \/ Call_scorecard
    \/ Call_sectors
    \/ Call_validate_against
    \/ Modify
    \/ Return

SpecDB == Init /\ [][NextDB]_vars

\* ----------------------------------------------------------------
\* engine.py: a PhiEngine with its adapters.  `adapters` is the dict
\* self._adapters, kept as the list of its items in insertion order;
\* `registrations` is the history of the register_adapter calls; `calls` is
\* the list of calls the last run made on adapters, each with the adapter
\* object, the method, its input and its outcome.

\* the position of a key in a dict, 0 when it is absent
key_index(items, name) ==
    IF \E i \in 1..Len(items) : items[i].name = name
    THEN CHOOSE i \in 1..Len(items) : items[i].name = name
    ELSE 0

\* self._adapters[name] = adapter: a new key goes to the end, a key that is
\* present keeps its place and takes the new value
register_adapter(items, name, adapter) ==
    IF key_index(items, name) = 0
    THEN Append(items, [name |-> name, adapter |-> adapter])
    ELSE [items EXCEPT ![key_index(items, name)].adapter = adapter]

\* list(self._adapters)
list_adapters(items) == [i \in 1..Len(items) |-> items[i].name]

\* one call of a method of an adapter object
adapter_call(adapter, method, input, outcome) ==
    [adapter |-> adapter, method |-> method, input |-> input, outcome |-> outcome]

\* run: the outcome and the calls made on the way
run_calls(items, adapter_name, data) ==
    LET i == key_index(items, adapter_name) IN
    IF i = 0 THEN [outcome |-> Ok([error |-> "Adapter not registered"]), calls |-> <<>>]
    ELSE LET adapter == items[i].adapter
             ingested == adapter_ingest(adapter.class, data)
             c1 == adapter_call(adapter, "ingest", data, ingested)
         IN IF ingested.raised THEN [outcome |-> ingested, calls |-> <<c1>>]
            ELSE LET result == adapter_analyze(adapter.class, ingested.val)
                     c2 == adapter_call(adapter, "analyze", ingested.val, result)
                 IN IF result.raised THEN [outcome |-> result, calls |-> <<c1, c2>>]
                    ELSE LET rep == adapter_report(adapter.class, result.val) IN
                         [outcome |-> Ok(rep),
                          calls |-> <<c1, c2, adapter_call(adapter, "report", result.val,
                                                           Ok(rep))>>]

\* the adapter objects, the names they are registered under and the payloads
AdapterObjects == [class : ADAPTERS, id : 1..MaxAdapterObjects]
AdapterNames == {"photosynthesis", "custom"}
DispatchPayloads ==
    {EmptyDict,
     [steps |-> <<>>],
     [readings |-> <<Pow2(0), Pow2(1)>>, reference |-> Pow2(0)]}

Register ==
    /\ pc = "idle"
    /\ Len(registrations) < MaxRegistrations
    /\ \E name \in AdapterNames : \E adapter \in AdapterObjects :
          /\ adapters' = register_adapter(adapters, name, adapter)
          /\ registrations' = Append(registrations, [name |-> name, adapter |-> adapter])
    /\ UNCHANGED <<pc, op, arg, ret, tables, log, db, constants_of, held, edits, calls, demo_vars>>

EngineRun ==
    /\ pc = "idle"
    /\ \E name \in AdapterNames \cup {"no_such_adapter"} : \E data \in DispatchPayloads :
          \E r \in {run_calls(adapters, name, data)} :
             /\ pc' = "done"
             /\ op' = "engine_run"
             /\ arg' = [adapter_name |-> name, data |-> data]
             /\ ret' = r.outcome
             /\ calls' = r.calls
    /\ UNCHANGED <<tables, log, db, constants_of, held, edits, adapters, registrations, demo_vars>>

ListAdapters ==
    /\ pc = "idle"
    /\ pc' = "done"
    /\ op' = "list_adapters"
    /\ arg' = <<>>
    /\ ret' = Ok(list_adapters(adapters))
    /\ UNCHANGED <<tables, log, db, constants_of, held, edits, engine_vars, demo_vars>>

EngineReturn ==
    /\ pc = "done"
    /\ pc' = "idle"
    /\ op' = "none"
    /\ arg' = <<>>
    /\ ret' = <<>>
    /\ calls' = <<>>
    /\ UNCHANGED <<tables, log, db, constants_of, held, edits, adapters, registrations, demo_vars>>

NextEngine ==
    \/ Register
    \/ EngineRun
    \/ ListAdapters
    \/ EngineReturn

SpecEngine == Init /\ [][NextEngine]_vars

\* ----------------------------------------------------------------
\* demo/payment.py, demo/database.py, demo/app.py: the free tier of the demo.
\* `users` is the table user_metadata, a row of counters by customer_email;
\* `today` is the calendar day datetime.now() gives, counted from 1;
\* `performed` counts, by e-mail of the session and day, the rows that
\* log_transform and log_analysis wrote, i.e. the operations carried out.
FREE_TRANSFORMS_PER_DAY == 10
FREE_ANALYSES_PER_DAY == 3

\* the e-mail addresses of the sessions; "" is the one a session starts with
Emails == {"", "a@example.org"}

\* max(a, b) of two integers
int_max(a, b) == IF a >= b THEN a ELSE b

\* the row INSERT INTO user_metadata (customer_email, last_reset_date) makes
new_user(date) ==
    [transforms_today |-> 0, analyses_today |-> 0,
     total_transforms |-> 0, total_analyses |-> 0, last_reset_date |-> date]

\* DemoDatabase.get_or_create_user: the counters it returns and the table it
\* leaves behind
get_or_create_user(table, email, date) ==
    IF email \notin DOMAIN table
    THEN [user |-> new_user(date), table |-> table @@ (email :> new_user(date))]
    ELSE IF table[email].last_reset_date # date
         THEN LET reset == [table[email] EXCEPT !.transforms_today = 0,
                                                !.analyses_today = 0,
                                                !.last_reset_date = date]
              IN [user |-> reset, table |-> [table EXCEPT ![email] = reset]]
         ELSE [user |-> table[email], table |-> table]

\* DemoDatabase.increment_usage: an UPDATE of the row of the e-mail, if any
increment_usage(table, email, transforms, analyses) ==
    IF email \notin DOMAIN table THEN table
    ELSE [table EXCEPT ![email].transforms_today = @ + transforms,
                       ![email].analyses_today = @ + analyses,
                       ![email].total_transforms = @ + transforms,
                       ![email].total_analyses = @ + analyses]

\* check_rate_limit: the dict it returns and the table it leaves behind
check_rate_limit(table, email, action, has_paid, date) ==
    IF has_paid
    THEN [rl |-> [allowed |-> TRUE, remaining |-> 999999, limit |-> 999999],
          table |-> table]
    ELSE LET got == get_or_create_user(table, email, date)
             used == IF action = "transform" THEN got.user.transforms_today
                     ELSE got.user.analyses_today
             limit == IF action = "transform" THEN FREE_TRANSFORMS_PER_DAY
                      ELSE FREE_ANALYSES_PER_DAY
         IN [rl |-> [allowed |-> used < limit,
                     remaining |-> int_max(0, limit - used),
                     limit |-> limit],
             table |-> got.table]

\* the rows logged for an e-mail on a day
logged(rows, email, date) ==
    IF <<email, date>> \in DOMAIN rows THEN rows[<<email, date>>]
    ELSE [transform |-> 0, analysis |-> 0]

\* log_transform and log_analysis: one more row
log_row(rows, email, date, kind) ==
    LET now == logged(rows, email, date)
        more == IF kind = "transform" THEN [now EXCEPT !.transform = @ + 1]
                ELSE [now EXCEPT !.analysis = @ + 1]
    IN [k \in DOMAIN rows \cup {<<email, date>>} |->
           IF k = <<email, date>> THEN more ELSE rows[k]]

RECURSIVE rows_in(_, _)
rows_in(rows, keys) ==
    IF keys = {} THEN 0
    ELSE LET k == CHOOSE x \in keys : TRUE
         IN rows[k].transform + rows[k].analysis + rows_in(rows, keys \ {k})

\* the Transform button of the D-Space Explorer tab; `raises` tells whether
\* the operation fails (engine.energy overflows on a sub-normal value)
Transform ==
    /\ pc = "idle"
    /\ rows_in(performed, DOMAIN performed) < MaxLogged
    /\ \E email \in Emails : \E raises \in BOOLEAN :
          \E c \in {check_rate_limit(users, email, "transform", FALSE, today)} :
             /\ pc' = "done"
             /\ op' = "Transform"
             /\ arg' = [email |-> email]
             /\ IF ~c.rl.allowed
                THEN /\ ret' = Ok([rl |-> c.rl, shown |-> "warning"])
                     /\ users' = c.table
                     /\ UNCHANGED performed
                ELSE IF raises
                THEN /\ ret' = Raise("OverflowError")
                     /\ users' = c.table
                     /\ UNCHANGED performed
                ELSE /\ ret' = Ok([rl |-> c.rl, shown |-> "results"])
                     /\ performed' = log_row(performed, email, today, "transform")
                     /\ users' = IF email # "" THEN increment_usage(c.table, email, 1, 0)
                                 ELSE c.table
    /\ UNCHANGED <<tables, log, db, constants_of, held, edits, engine_vars, today, payments, webhook>>

\* the Calibrate button of the Calibration Tool tab
Calibrate ==
    /\ pc = "idle"
    /\ rows_in(performed, DOMAIN performed) < MaxLogged
    /\ \E email \in Emails : \E raises \in BOOLEAN :
          \E c \in {check_rate_limit(users, email, "analysis", FALSE, today)} :
             /\ pc' = "done"
             /\ op' = "Calibrate"
             /\ arg' = [email |-> email]
             /\ IF ~c.rl.allowed
                THEN /\ ret' = Ok([rl |-> c.rl, shown |-> "warning"])
                     /\ users' = c.table
                     /\ UNCHANGED performed
                ELSE IF raises
                THEN /\ ret' = Raise("ValueError")
                     /\ users' = c.table
                     /\ UNCHANGED performed
                ELSE /\ ret' = Ok([rl |-> c.rl, shown |-> "results"])
                     /\ performed' = log_row(performed, email, today, "analysis")
                     /\ users' = IF email # "" THEN increment_usage(c.table, email, 0, 1)
                                 ELSE c.table
    /\ UNCHANGED <<tables, log, db, constants_of, held, edits, engine_vars, today, payments, webhook>>

\* midnight: datetime.now() gives the next day from here on
NextDay ==
    /\ pc = "idle"
    /\ today < MaxDays
    /\ today' = today + 1
    /\ UNCHANGED <<pc, op, arg, ret, tables, log, db, constants_of, held, edits, engine_vars, users, performed, payments, webhook>>

NextUsage ==
    \/ Transform
    \/ Calibrate
    \/ NextDay
    \/ Return

SpecUsage == Init /\ [][NextUsage]_vars

\* ----------------------------------------------------------------
\* demo/database.py, demo/webhook.py: payments.  `payments` is the table
\* payments, a row by INSERT in the order of the inserts; `webhook` is the
\* webhook server: whether its module is loaded and the WEBHOOK_SECRET it read
\* from the environment when it was.
SessionIds == {"session-1", "session-2"}
StripeSessionIds == {"cs_1", "cs_2"}
WebhookSecrets == {"", "whsec_1"}

\* DemoDatabase.log_payment_initiated: stripe_session_id is UNIQUE, the status
\* of a new row is the default 'pending'
log_payment_initiated(rows, session_id, stripe_session_id) ==
    IF \E i \in 1..Len(rows) : rows[i].stripe_session_id = stripe_session_id
    THEN [outcome |-> Raise("IntegrityError"), rows |-> rows]
    ELSE [outcome |-> Ok("None"),
          rows |-> Append(rows, [session_id |-> session_id,
                                 stripe_session_id |-> stripe_session_id,
                                 payment_status |-> "pending"])]

\* DemoDatabase.update_payment_status
update_payment_status(rows, stripe_session_id, status) ==
    [i \in 1..Len(rows) |->
        IF rows[i].stripe_session_id = stripe_session_id
        THEN [rows[i] EXCEPT !.payment_status = status]
        ELSE rows[i]]

\* DemoDatabase.has_paid_access
has_paid_access(rows, session_id) ==
    Cardinality({i \in 1..Len(rows) : /\ rows[i].session_id = session_id
                                      /\ rows[i].payment_status = "completed"}) > 0

\* stripe.Webhook.construct_event: the payload parses and the signature in
\* the header was made with the secret
construct_event(request, secret) ==
    IF ~request.well_formed THEN Raise("ValueError")
    ELSE IF request.signed_with # secret THEN Raise("SignatureVerificationError")
    ELSE Ok(request.event)

\* json.loads(payload)
json_loads(request) ==
    IF ~request.well_formed THEN Raise("JSONDecodeError") ELSE Ok(request.event)

\* stripe_webhook: the response and the payments table it leaves behind
stripe_webhook(rows, secret, request) ==
    LET event == IF secret # "" THEN construct_event(request, secret)
                 ELSE json_loads(request)
    IN IF event.raised
       THEN [status |-> IF secret # "" THEN 400 ELSE 500, rows |-> rows]
       ELSE IF /\ event.val.type = "checkout.session.completed"
               /\ event.val.payment_status = "paid"
            THEN [status |-> 200,
                  rows |-> update_payment_status(rows, event.val.id, "completed")]
            ELSE [status |-> 200, rows |-> rows]

\* the requests that reach POST /webhook: a payload that parses or not, a
\* Stripe-Signature made with some secret or with none, and the event
EventTypes ==
    {"checkout.session.completed", "invoice.payment_succeeded",
     "customer.subscription.deleted"}
WebhookRequests ==
    [well_formed : BOOLEAN,
     signed_with : {"none", "whsec_1", "whsec_other"},
     event : [type : EventTypes,
              id : StripeSessionIds \cup {""},
              payment_status : {"paid", "unpaid"}]]

\* the webhook module is imported: WEBHOOK_SECRET = os.environ.get(..., "")
LoadWebhook ==
    /\ pc = "idle"
    /\ ~webhook.loaded
    /\ \E secret \in WebhookSecrets :
          webhook' = [loaded |-> TRUE, WEBHOOK_SECRET |-> secret]
    /\ UNCHANGED <<pc, op, arg, ret, tables, log, db, constants_of, held, edits, engine_vars, users, today, performed, payments>>

LogPaymentInitiated ==
    /\ pc = "idle"
    /\ Len(payments) < MaxPayments
    /\ \E session_id \in SessionIds : \E stripe_session_id \in StripeSessionIds :
          \E r \in {log_payment_initiated(payments, session_id, stripe_session_id)} :
             /\ pc' = "done"
             /\ op' = "log_payment_initiated"
             /\ arg' = [session_id |-> session_id, stripe_session_id |-> stripe_session_id]
             /\ ret' = r.outcome
             /\ payments' = r.rows
    /\ UNCHANGED <<tables, log, db, constants_of, held, edits, engine_vars, users, today, performed, webhook>>

StripeWebhook ==
    /\ pc = "idle"
    /\ webhook.loaded
    /\ \E request \in WebhookRequests :
          \E r \in {stripe_webhook(payments, webhook.WEBHOOK_SECRET, request)} :
             /\ pc' = "done"
             /\ op' = "stripe_webhook"
             /\ arg' = request
             /\ ret' = Ok(r.status)
             /\ payments' = r.rows
    /\ UNCHANGED <<tables, log, db, constants_of, held, edits, engine_vars, users, today, performed, webhook>>

HasPaidAccess ==
    /\ pc = "idle"
    /\ \E session_id \in SessionIds :
          /\ pc' = "done"
          /\ op' = "has_paid_access"
          /\ arg' = session_id
          /\ ret' = Ok(has_paid_access(payments, session_id))
    /\ UNCHANGED <<tables, log, db, constants_of, held, edits, engine_vars, demo_vars>>

NextPayments ==
    \/ LoadWebhook
    \/ LogPaymentInitiated
    \/ StripeWebhook
    \/ HasPaidAccess
    \/ Return

SpecPayments == Init /\ [][NextPayments]_vars

\* ----------------------------------------------------------------
\* Properties of the transforms.

HasNonPositive(l) == \E i \in 1..Len(l) : FLeqZero(l[i])

\* C1: for every x > 0, full_check(x) returns with both the closure check
\* and the energy check valid.
C1_FullCheckValidForPositive ==
    (op = "full_check" /\ FIsPositive(arg)) =>
        /\ ~ret.raised
        /\ ret.val.d_space_closure.valid
        /\ ret.val.energy_conservation.valid

\* C2: for every x > 0, x_from_D(D(x)) returns x (within 1e-10), and
\* inverse_transform(transform(values)) recovers every positive value.
C2_RoundTripRecovers ==
    /\ op = "roundtrip" => (~ret.raised /\ FWithinTol(ret.val, arg))
    /\ (op = "roundtrip_list" /\ ~HasNonPositive(arg)) =>
          /\ ~ret.raised
          /\ Len(ret.val) = Len(arg)
          /\ \A i \in 1..Len(arg) : FWithinTol(ret.val[i], arg[i])

\* C3: D(x) and Energy(x) raise ValueError for every x <= 0, and
\* transform, energy and report raise, returning nothing, whenever some
\* element of values is <= 0.
C3_DomainErrorSurfaces ==
    /\ (op \in {"D", "Energy"} /\ FLeqZero(arg)) =>
          (ret.raised /\ ret.exc = "ValueError")
    /\ (op \in {"transform", "energy"} /\ HasNonPositive(arg)) => ret.raised
    /\ (op = "report" /\ HasNonPositive(DictGetValues(arg))) => ret.raised

C3_Witness ==
    /\ op = "report"
    /\ Len(DictGetValues(arg)) = 2
    /\ FIsPositive(arg.values[1])
    /\ arg.values[2] = FZero
    /\ ret.raised
    /\ ret.exc = "ValueError"

\* ----------------------------------------------------------------
\* Properties of the decomposer.

IsAscending(s) == \A i \in 1..(Len(s) - 1) : s[i] <= s[i + 1]
RECURSIVE SeqProduct(_, _)
SeqProduct(s, i) == IF i > Len(s) THEN 1 ELSE s[i] * SeqProduct(s, i + 1)

\* C4: for n >= 1 the record of fibonacci_factors(n) has factors in
\* ascending order, each a Fibonacci number > 1 dividing n; product is the
\* product of the factors and divides n; residual = n - product; and
\* exact = (product = n).
C4_FactorRecordWellFormed ==
    (op = "fibonacci_factors" /\ arg >= 1) =>
        /\ ~ret.raised
        /\ IsAscending(ret.val.factors)
        /\ \A i \in 1..Len(ret.val.factors) :
              /\ IsFibonacciAbove1(ret.val.factors[i])
              /\ arg % ret.val.factors[i] = 0
        /\ ret.val.product = SeqProduct(ret.val.factors, 1)
        /\ arg % ret.val.product = 0
        /\ ret.val.residual = arg - ret.val.product
        /\ ret.val.exact = (ret.val.product = arg)

C4_Witness ==
    /\ op = "fibonacci_factors"
    /\ arg >= 1
    /\ Len(ret.val.factors) >= 3
    /\ ret.val.factors[1] < ret.val.factors[3]
    /\ ~ret.val.exact

\* C5: the greedy factorization is incomplete: 1008 = 2 * 3 * 8 * 21 is a
\* product of Fibonacci numbers > 1, yet fibonacci_factors(1008), dividing
\* by 144 first, returns exact = FALSE with a nonzero residual.
C5_GreedyIncomplete ==
    (op = "fibonacci_factors" /\ arg = 1008) =>
        /\ 2 * 3 * 8 * 21 = arg
        /\ \A f \in {2, 3, 8, 21} : IsFibonacciAbove1(f)
        /\ ~ret.raised
        /\ ~ret.val.exact
        /\ ret.val.residual # 0

C5_Witness ==
    /\ op = "fibonacci_factors"
    /\ arg > 0
    /\ Representable(arg)
    /\ ret.val.exact = FALSE
    /\ ret.val.residual = 864
    /\ ret.val.factors = <<144>>

KnownDimensions == {1, 3, 8, 12, 24, 45, 78, 133, 248}
\* the score the ranking is to give an integer
ExpectedScore(den) ==
    IF den \in KnownDimensions THEN 3
    ELSE IF den >= 1 /\ fibonacci_factors(den).val.exact THEN 2
    ELSE 1

\* C6: for every list of integers, of any sign, hierarchy_rank returns
\* one entry per input, scored 3 for a known dimension, 2 for an unknown
\* integer with an exact factorization and 1 otherwise, and never fails.
C6_RankScoresEveryInteger ==
    op = "hierarchy_rank" =>
        /\ ~ret.raised
        /\ Len(ret.val) = Len(arg)
        /\ \A i \in 1..Len(ret.val) :
              ret.val[i].score = ExpectedScore(ret.val[i].denominator)

CountOf(s, v) == Cardinality({i \in 1..Len(s) : s[i] = v})
AllPositive(l) == \A i \in 1..Len(l) : l[i] >= 1

\* C7: for every list of positive integers the ranking is a permutation
\* of the input (duplicates kept), by score descending and, among equal
\* scores, by denominator ascending.
C7_RankIsSortedPermutation ==
    (op = "hierarchy_rank" /\ AllPositive(arg)) =>
        /\ ~ret.raised
        /\ Len(ret.val) = Len(arg)
        /\ \A v \in 1..MaxDen :
              CountOf([i \in 1..Len(ret.val) |-> ret.val[i].denominator], v)
                 = CountOf(arg, v)
        /\ \A i \in 1..Len(ret.val) : \A j \in (i + 1)..Len(ret.val) :
              \/ ret.val[i].score > ret.val[j].score
              \/ /\ ret.val[i].score = ret.val[j].score
                 /\ ret.val[i].denominator <= ret.val[j].denominator

C7_Witness ==
    /\ op = "hierarchy_rank"
    /\ arg = <<7, 2, 8>>
    /\ ~ret.raised
    /\ ret.val[1].denominator = 8 /\ ret.val[1].score = 3
    /\ ret.val[2].denominator = 2 /\ ret.val[2].score = 2
    /\ ret.val[3].denominator = 7 /\ ret.val[3].score = 1

\* C8: gut_decomposition(dim) names a group exactly when dim is one of
\* 1, 3, 8, 12, 24, 45, 78, 133, 248 and otherwise returns group "unknown"
\* with no form; either way it carries fibonacci_factors(dim); and
\* gut_decomposition(45) is SO(10) adj with an exact factorization of
\* product 45.
C8_GutDecomposition ==
    op = "gut_decomposition" =>
        /\ ~ret.raised
        /\ ret.val.dimension = arg
        /\ (ret.val.group # "unknown") <=> (arg \in KnownDimensions)
        /\ (arg \notin KnownDimensions) => ret.val.fibonacci_form = "None"
        /\ (arg \in KnownDimensions) => ret.val.fibonacci_form # "None"
        /\ ret.val.fibonacci_factors = fibonacci_factors(arg).val
        /\ (arg = 45) =>
              /\ ret.val.group = "SO(10) adj"
              /\ ret.val.fibonacci_factors.exact
              /\ ret.val.fibonacci_factors.product = 45
              /\ ret.val.fibonacci_factors.factors = <<3, 3, 5>>

C8_Witness ==
    /\ op = "gut_decomposition"
    /\ arg = 45
    /\ ret.val.group = "SO(10) adj"
    /\ ret.val.fibonacci_factors.product = 45

\* ----------------------------------------------------------------
\* Properties of the sum-rule validator.

\* C9: validate raises for no input, and when the coefficients sum exactly
\* to expected_sum (zero and the empty list included) it returns
\* actual_sum = expected_sum, deviation_ppm = 0, residual = 0 and
\* valid = TRUE for every tolerance_ppm >= 0.
C9_ExactSumIsValid ==
    op = "validate" =>
        /\ ~ret.raised
        /\ (SumOf(arg.c) = arg.expected /\ arg.tol >= 0) =>
              /\ ret.val.actual_sum = arg.expected
              /\ ret.val.deviation_ppm = [ppm |-> 0, milli |-> 0]
              /\ ret.val.residual = 0
              /\ ret.val.valid

\* validate([-1, 1, 2, 0.5], 2.5) with tolerance 0, in halves
C9_Witness ==
    /\ op = "validate"
    /\ arg.c = <<0 - 2, 2, 4, 1>>
    /\ arg.expected = 5
    /\ arg.tol = 0
    /\ ret.val.valid
    /\ ret.val.actual_sum = 5

\* C10 as stated: valid is TRUE exactly when the returned (rounded)
\* deviation_ppm is <= the returned tolerance_ppm.
C10_ValidAgreesWithReturnedDeviation ==
    op = "validate" =>
        /\ ~ret.raised
        /\ ret.val.valid <=> RoundedLeq(ret.val.deviation_ppm, ret.val.tolerance_ppm)

\* C10 amended: valid is TRUE exactly when the deviation BEFORE rounding
\* (abs(actual - expected) / abs(expected) * 1e6, or abs(actual) * 1e6 when
\* expected is zero) is <= tolerance_ppm; the returned deviation_ppm is
\* that deviation rounded to 3 decimals, and the returned tolerance_ppm is
\* the one passed in.
C10_ValidFromUnroundedDeviation ==
    op = "validate" =>
        LET actual == SumOf(arg.c)
            num == IF arg.expected = 0 THEN Abs(actual) * PPM
                   ELSE Abs(actual - arg.expected) * PPM
            den == IF arg.expected = 0 THEN Unit ELSE Abs(arg.expected)
            whole == num \div den
            thousandths == ((num % den) * 1000) \div den
            beyond == ((num % den) * 1000) % den
            tolWhole == arg.tol \div 1000
            tolThousandths == arg.tol % 1000
        IN /\ ~ret.raised
           /\ ret.val.tolerance_ppm = arg.tol
           /\ ret.val.valid <=>
                 \/ whole < tolWhole
                 \/ /\ whole = tolWhole
                    /\ \/ thousandths < tolThousandths
                       \/ (thousandths = tolThousandths /\ beyond = 0)
           /\ (2 * beyond < den) =>
                 ret.val.deviation_ppm = [ppm |-> whole, milli |-> thousandths]
           /\ (2 * beyond > den) =>
                 ret.val.deviation_ppm =
                    IF thousandths = 999 THEN [ppm |-> whole + 1, milli |-> 0]
                    ELSE [ppm |-> whole, milli |-> thousandths + 1]

\* validate([2.0, 2.0], 3.0, 333333.333): deviation 333333.33.. > tolerance,
\* returned deviation_ppm 333333.333 = tolerance_ppm
C10_Witness ==
    /\ op = "validate"
    /\ arg.c = <<4, 4>>
    /\ arg.expected = 6
    /\ arg.tol = 333333333
    /\ ~ret.val.valid
    /\ ret.val.deviation_ppm = [ppm |-> 333333, milli |-> 333]

AllBelow2To53(c, t) == t.hi = 0 /\ \A i \in 1..Len(c) : c[i].hi = 0

C12_ErrorMarkerBecomesFailure ==
    (pc = "done" /\ op = "analyze" /\ "error" \in DOMAIN arg.d_data) =>
        /\ ~ret.raised
        /\ ret.val.result.success = FALSE
        /\ ret.val.result.consistency_score = ScoreNano(0)
        /\ ret.val.result.d_space_values = <<>>
        /\ ret.val.result.hierarchy = <<>>
        /\ ret.val.result.recommendations = <<arg.d_data.error>>
        /\ ret.val.report.success = FALSE
        /\ ret.val.report.recommendations = <<arg.d_data.error>>

C12_Witness ==
    /\ pc = "done" /\ op = "analyze"
    /\ arg.adapter = "sensor_fusion"
    /\ "error" \in DOMAIN arg.d_data
    /\ ~ret.raised
    /\ ret.val.report.recommendations = <<"No sensors provided">>

\* the payloads C13 lists: an empty or missing reading list, a reference
\* that is not positive, an empty or missing sensor list, an unknown mode,
\* an empty step list
InvalidPayload(name, data) ==
    IF name = "calibration"
    THEN \/ GetOr(data, "readings", <<>>) = <<>>
         \/ ("reference" \in DOMAIN data /\ FLeqZero(data.reference))
    ELSE IF name = "sensor_fusion"
    THEN GetOr(data, "sensors", <<>>) = <<>>
    ELSE \/ GetOr(data, "mode", "cascade") \notin {"cascade", "mof_filter", "full_system"}
         \/ /\ GetOr(data, "mode", "cascade") \in {"cascade", "full_system"}
            /\ "steps" \in DOMAIN data
            /\ data.steps = <<>>

\* C13: for every registered adapter and every payload with a missing or
\* invalid field, engine.run does not raise and returns a report with
\* success false and exactly one recommendation.
C13_InvalidPayloadNeverRaises ==
    (pc = "done" /\ op = "run" /\ arg.adapter \in ADAPTERS
        /\ InvalidPayload(arg.adapter, arg.data)) =>
        /\ ~ret.raised
        /\ ret.val.success = FALSE
        /\ Len(ret.val.recommendations) = 1

\* C14: adapters keep no state between calls: in any sequence of engine.run
\* calls, two runs of the same adapter on the same payload give the same
\* outcome whatever ran in between, and every run leaves NATURAL_STEPS,
\* MOF_MATERIALS and the caller's payload as they were.
C14_RunsKeepNoState ==
    /\ tables.NATURAL_STEPS = NATURAL_STEPS
    /\ tables.MOF_MATERIALS = MOF_MATERIALS
    /\ \A i \in 1..Len(log) :
          /\ log[i].data_after = log[i].data
          /\ \A j \in 1..Len(log) :
                (log[i].adapter = log[j].adapter /\ log[i].data = log[j].data)
                    => log[i].outcome = log[j].outcome

C14_Witness ==
    /\ Len(log) = 3
    /\ log[1].adapter = "photosynthesis" /\ log[1].data = EmptyDict
    /\ log[2].adapter = "photosynthesis"
    /\ log[2].data # EmptyDict /\ "steps" \in DOMAIN log[2].data
    /\ ~log[2].outcome.raised
    /\ log[3].adapter = "photosynthesis" /\ log[3].data = EmptyDict
    /\ ~log[3].outcome.raised
    /\ log[3].outcome.val.success

\* ----------------------------------------------------------------
\* Properties of the constants database.

\* what a query returns on a freshly built table
OnFreshTable(query, a) ==
    CASE query = "get" -> get(DB_TABLE, new_constants, a.name)
      [] query = "search" -> search(DB_TABLE, new_constants, a.sector, a.query)
      [] query = "best_predictions" -> best_predictions(DB_TABLE, new_constants, a.n)
      [] query = "scorecard" -> scorecard(DB_TABLE, new_constants)
      [] query = "sectors" -> sectors(DB_TABLE, new_constants)
      [] query = "validate_against" ->
            validate_against(DB_TABLE, new_constants, a.experimental)

\* C15: the constants table is never mutated: whatever queries were made on
\* whatever instances, and whatever the caller wrote into the records it was
\* handed, every query returns what it returns on a freshly built table.
C15_TableNeverMutated ==
    /\ db = DB_TABLE
    /\ \A inst \in 1..Len(constants_of) : constants_of[inst] = new_constants
    /\ (pc = "done" /\ op \in {"get", "search", "best_predictions", "scorecard",
                               "sectors", "validate_against"})
          => ret = OnFreshTable(op, arg)

C15_Witness ==
    /\ pc = "done" /\ op = "get"
    /\ edits = 2
    /\ arg.inst = 2
    /\ ret.val # None
    /\ ret.val.deviation_ppm > 0

\* entry i matches the filters of search, a filter counting when it is given
MatchesGiven(i, sector, query) ==
    /\ sector.has => DB_TABLE[i].sector = sector.v
    /\ query.has => contains(str_lower(query.v), str_lower(DB_TABLE[i].name))
\* entry i matches the filters of search, a filter counting when it is given
\* and not empty
MatchesNonEmpty(i, sector, query) ==
    /\ (sector.has /\ sector.v # "") => DB_TABLE[i].sector = sector.v
    /\ (query.has /\ query.v # <<>>) =>
          contains(str_lower(query.v), str_lower(DB_TABLE[i].name))
\* the entries of the table that satisfy Keep, in construction order
EntriesWhere(Keep(_)) ==
    LET idx == SelectSeq([i \in 1..Len(DB_TABLE) |-> i], Keep) IN
    [k \in 1..Len(idx) |-> DB_TABLE[idx[k]]]

\* C16: search(sector, query) returns exactly the entries whose sector equals
\* the given sector (when one is given) and whose name contains the query as
\* a case-insensitive substring (when one is given), in construction order,
\* none repeated or dropped; with neither filter it returns the whole table.
C16_SearchFiltersGiven ==
    (pc = "done" /\ op = "search") =>
        /\ ~ret.raised
        /\ ret.val = EntriesWhere(LAMBDA i : MatchesGiven(i, arg.sector, arg.query))
        /\ (~arg.sector.has /\ ~arg.query.has) => ret.val = DB_TABLE

\* C16, amended: as C16, a filter counting when it is given and is not the
\* empty string; search with an empty sector does not filter by sector.
C16_SearchFiltersNonEmpty ==
    (pc = "done" /\ op = "search") =>
        /\ ~ret.raised
        /\ ret.val = EntriesWhere(LAMBDA i : MatchesNonEmpty(i, arg.sector, arg.query))
        /\ (~arg.sector.has /\ ~arg.query.has) => ret.val = DB_TABLE
        /\ (arg.sector.has /\ arg.sector.v = "" /\ ~arg.query.has) => ret.val = DB_TABLE

C16_Witness ==
    /\ pc = "done" /\ op = "search"
    /\ arg.sector.has /\ arg.sector.v = "core"
    /\ arg.query.has /\ arg.query.v = <<"o", "m", "e", "g", "a">>
    /\ ~ret.raised
    /\ Len(ret.val) = 1
    /\ ret.val[1].name = <<"O", "M", "E", "G", "A">>

NonExact == {i \in 1..Len(DB_TABLE) : DB_TABLE[i].deviation_ppm # 0}

\* C17: for n >= 0, best_predictions(n) returns min(n, k) entries, k the
\* number of entries of nonzero deviation; each has deviation_ppm > 0, they
\* are in ascending order of deviation_ppm, and no entry of nonzero deviation
\* left out has a smaller deviation than one returned.
C17_BestPredictions ==
    (pc = "done" /\ op = "best_predictions" /\ arg.n >= 0) =>
        /\ ~ret.raised
        /\ Len(ret.val) = (IF arg.n < Cardinality(NonExact) THEN arg.n
                           ELSE Cardinality(NonExact))
        /\ \A k \in 1..Len(ret.val) :
              /\ ret.val[k].deviation_ppm > 0
              /\ \E i \in NonExact : DB_TABLE[i] = ret.val[k]
              /\ \A j \in 1..(k - 1) :
                    /\ ret.val[j].deviation_ppm <= ret.val[k].deviation_ppm
                    /\ ret.val[j] # ret.val[k]
              /\ \A i \in NonExact :
                    (\A j \in 1..Len(ret.val) : ret.val[j] # DB_TABLE[i])
                        => DB_TABLE[i].deviation_ppm >= ret.val[k].deviation_ppm

C17_Witness ==
    /\ pc = "done" /\ op = "best_predictions"
    /\ arg.n = 3
    /\ ~ret.raised
    /\ Len(ret.val) = 3
    /\ ret.val[1].name = <<"m", "_", "p", "/", "m", "_", "e">>

\* a consistency score lies in [0, 1]: a number of billionths between 0 and
\* NANO, or 1 - std for a standard deviation 0 < std <= 1
ScoreInUnitInterval(score) ==
    IF score.k = "nano" THEN 0 <= score.nano /\ score.nano <= NANO
    ELSE IF score.k = "one_minus_std"
    THEN score.var.num > 0 /\ score.var.den > 0
            /\ ~SquareUnitsGreater(score.var, 1000000)
    ELSE FALSE

\* C18: every analysis result an adapter produces, from any ingested record
\* and through engine.run from any payload, has a consistency score within
\* [0, 1], and the score is 0 whenever success is false.
C18_ScoreInUnitInterval ==
    /\ (pc = "done" /\ op = "analyze" /\ ~ret.raised) =>
          /\ ScoreInUnitInterval(ret.val.result.consistency_score)
          /\ ScoreInUnitInterval(ret.val.report.consistency_score)
          /\ ~ret.val.result.success =>
                /\ ret.val.result.consistency_score = ScoreNano(0)
                /\ ret.val.report.consistency_score = ScoreNano(0)
    /\ (pc = "done" /\ op = "run" /\ arg.adapter \in ADAPTERS /\ ~ret.raised) =>
          /\ ScoreInUnitInterval(ret.val.consistency_score)
          /\ ~ret.val.success => ret.val.consistency_score = ScoreNano(0)

\* a full-system analysis whose dimensions miss their sum by more than the
\* sum itself: the score is floored at 0 although the analysis succeeded
C18_Witness ==
    /\ pc = "done" /\ op = "analyze"
    /\ arg.adapter = "photosynthesis"
    /\ ~ret.raised
    /\ ret.val.result.success
    /\ "sum_rule" \in DOMAIN ret.val.result.data
    /\ ret.val.result.data.sum_rule.deviation_ppm.ppm > PPM
    /\ ret.val.result.consistency_score = ScoreNano(0)

\* the first step, in input order, of minimal efficiency
first_of_minimal_efficiency(etas) ==
    CHOOSE i \in 1..Len(etas) :
        /\ \A j \in 1..Len(etas) : ~PLess(etas[j], etas[i])
        /\ \A j \in 1..(i - 1) : PLess(etas[i], etas[j])

\* C19: in cascade mode with a non-empty step list the reported bottleneck
\* is the first step, in input order, of minimal clamped efficiency, and it
\* is the rank-1 entry of the ranking; with the default seven-step table and
\* the target 0.20 the run succeeds with a consistency score above 0.99 and
\* the bottleneck carbon_fixation.
C19_BottleneckHasMinimalEfficiency ==
    /\ (pc = "done" /\ op = "run" /\ arg.adapter = "photosynthesis"
            /\ GetOr(arg.data, "mode", "cascade") = "cascade"
            /\ GetOr(arg.data, "steps", NATURAL_STEPS) # <<>>) =>
          /\ ~ret.raised
          /\ LET steps == GetOr(arg.data, "steps", NATURAL_STEPS)
                 etas == [i \in 1..Len(steps) |->
                            clamp_efficiency(GetOr(steps[i], "efficiency", PFloat(301, 0)))]
                 i0 == first_of_minimal_efficiency(etas)
             IN /\ ret.val.bottleneck.step_name = GetOr(steps[i0], "name", "unnamed")
                /\ ret.val.bottleneck.efficiency = etas[i0]
    /\ (pc = "done" /\ op = "analyze" /\ arg.adapter = "photosynthesis"
            /\ "error" \notin DOMAIN arg.d_data
            /\ arg.d_data.mode = "cascade"
            /\ arg.d_data.steps # <<>>) =>
          /\ ~ret.raised
          /\ LET result == ret.val.result IN
             /\ result.hierarchy[1].rank = 1
             /\ result.hierarchy[1].step = result.data.bottleneck.step_name
             /\ result.hierarchy[1].d_value = result.data.bottleneck.d_value
    /\ (pc = "done" /\ op = "run" /\ arg.adapter = "photosynthesis"
            /\ GetOr(arg.data, "mode", "cascade") = "cascade"
            /\ "steps" \notin DOMAIN arg.data
            /\ "target_efficiency" \notin DOMAIN arg.data) =>
          /\ ~ret.raised
          /\ ret.val.success
          /\ ret.val.consistency_score.k = "nano"
          /\ ret.val.consistency_score.nano > 99 * (NANO \div 100)
          /\ ret.val.bottleneck.step_name = "carbon_fixation"

\* ----------------------------------------------------------------
\* Properties of the MOF filter.

\* a material of MOF_MATERIALS satisfies every active constraint
SatisfiesConstraints(name, constraints) ==
    LET mat == MOF_MATERIALS[name] IN
    /\ GetOr(constraints, "self_healing", FALSE) => mat.self_healing
    /\ GetOr(constraints, "abundant_only", FALSE) => mat.abundant
    /\ "max_cost_relative" \in DOMAIN constraints
          => mat.cost_relative <= constraints.max_cost_relative
    /\ "min_selectivity" \in DOMAIN constraints
          => mat.co2_n2_selectivity >= constraints.min_selectivity

\* how often a name occurs in a list of names
Occurrences(name, names) == Cardinality({i \in 1..Len(names) : names[i] = name})

\* a <= b for scores rounded to three decimals
Rounded3Leq(a, b) == a.whole < b.whole \/ (a.whole = b.whole /\ a.milli <= b.milli)

\* C20: in mof_filter mode the ranking holds exactly the known candidates
\* that satisfy all active constraints, each as often as the candidate list
\* names it, sorted by score descending; after_constraints is the length of
\* the ranking and is at most total_candidates.
C20_MofFilterRanking ==
    /\ (pc = "done" /\ op = "run" /\ arg.adapter = "photosynthesis"
            /\ GetOr(arg.data, "mode", "cascade") = "mof_filter") =>
          /\ ~ret.raised
          /\ LET candidates == GetOr(arg.data, "candidates", MOF_NAMES)
                 constraints == GetOr(arg.data, "constraints", EmptyDict)
                 ranking == ret.val.mof_ranking
                 ranked == [i \in 1..Len(ranking) |-> ranking[i].name]
             IN /\ \A n \in Range(candidates) \cup Range(ranked) :
                      Occurrences(n, ranked) =
                         (IF n \in DOMAIN MOF_MATERIALS /\ SatisfiesConstraints(n, constraints)
                          THEN Occurrences(n, candidates) ELSE 0)
                /\ \A i \in 1..Len(ranking) :
                      /\ ranking[i].score = round3(mof_score(MOF_MATERIALS[ranking[i].name]))
                      /\ \A j \in 1..(i - 1) : Rounded3Leq(ranking[i].score, ranking[j].score)
                /\ ret.val.after_constraints = Len(ranking)
                /\ ret.val.after_constraints <= ret.val.total_candidates
    /\ (pc = "done" /\ op = "analyze" /\ arg.adapter = "photosynthesis"
            /\ "error" \notin DOMAIN arg.d_data
            /\ arg.d_data.mode = "mof_filter") =>
          /\ ~ret.raised
          /\ LET result == ret.val.result IN
             /\ Len(result.hierarchy) = Len(result.data.mof_ranking)
             /\ \A i \in 1..Len(result.hierarchy) :
                   /\ result.hierarchy[i].rank = i
                   /\ result.hierarchy[i].mof = result.data.mof_ranking[i].name
                   /\ \A j \in 1..(i - 1) :
                         ~QLess(result.hierarchy[j].score, result.hierarchy[i].score)

\* two candidates given in ascending order of score, one constraint that
\* both satisfy: the ranking has them in the opposite order
C20_Witness ==
    /\ pc = "done" /\ op = "run"
    /\ arg.adapter = "photosynthesis"
    /\ GetOr(arg.data, "mode", "cascade") = "mof_filter"
    /\ GetOr(arg.data, "candidates", <<>>) = <<"ZIF-8", "Fe-BTC">>
    /\ GetOr(arg.data, "constraints", EmptyDict) = [abundant_only |-> TRUE]
    /\ ~ret.raised
    /\ ret.val.after_constraints = 2
    /\ ret.val.mof_ranking[1].name = "Fe-BTC"
    /\ ret.val.mof_ranking[2].name = "ZIF-8"

\* ----------------------------------------------------------------
\* Properties of the calibration adapter.

\* C21: every successful calibration analysis has a non-empty list of
\* recommendations chosen by the thresholds alone: the drift message exactly
\* when |d_mean| > 0.1, the variance message exactly when d_std > 0.05, and
\* the tolerance message, alone, exactly when neither threshold is exceeded.
C21_RecommendationsByThreshold ==
    (pc = "done" /\ op = "analyze" /\ arg.adapter = "calibration"
        /\ ~ret.raised /\ ret.val.result.success) =>
        LET result == ret.val.result
            recs == result.recommendations
            drifting == UnitsGreater(result.data.drift.magnitude, 100)
            noisy == SquareUnitsGreater(result.data.d_var, 2500)
            drift_msg == "Systematic drift detected. Recalibrate instrument."
            noise_msg == "High D-space variance. Check for environmental interference."
            fine_msg == "Instrument within calibration tolerance."
        IN /\ recs # <<>>
           /\ result.data.d_mean = mean([i \in 1..Len(arg.d_data.d_residuals) |->
                                            arg.d_data.d_residuals[i].n])
           /\ result.data.drift.magnitude.num * result.data.d_mean.den
                 = Abs(result.data.d_mean.num) * result.data.drift.magnitude.den
           /\ (drift_msg \in Range(recs)) <=> drifting
           /\ (noise_msg \in Range(recs)) <=> noisy
           /\ (fine_msg \in Range(recs)) <=> (~drifting /\ ~noisy)
           /\ (fine_msg \in Range(recs)) => recs = <<fine_msg>>
           /\ \A i \in 1..Len(recs) : \A j \in 1..(i - 1) : recs[i] # recs[j]
           /\ ret.val.report.recommendations = recs

\* readings that average to the reference but scatter around it: the variance
\* message alone
C21_Witness ==
    /\ pc = "done" /\ op = "analyze"
    /\ arg.adapter = "calibration"
    /\ ~ret.raised
    /\ ret.val.result.success
    /\ ret.val.result.data.d_mean.num = 0
    /\ ret.val.result.recommendations
          = <<"High D-space variance. Check for environmental interference.">>

\* ----------------------------------------------------------------
\* Properties of the consistency checker and of the sequences.

\* C22: for every x <= 0, full_check(x), which is engine.check(x), returns
\* without raising, and both of its records, the one of d_space_closure(x)
\* and the one of energy_conservation(x), have valid false and an error
\* message.
C22_NonPositiveIsInvalidNotRaised ==
    (pc = "done" /\ op = "full_check" /\ FLeqZero(arg)) =>
        /\ ~ret.raised
        /\ ret.val.d_space_closure = [valid |-> FALSE, error |-> "x must be > 0"]
        /\ ret.val.energy_conservation = [valid |-> FALSE, error |-> "x must be > 0"]
        /\ ret.val.d_space_closure = d_space_closure(arg).val
        /\ ret.val.energy_conservation = energy_conservation(arg).val

C22_Witness ==
    /\ pc = "done" /\ op = "full_check"
    /\ arg = FInf(0 - 1)
    /\ ~ret.raised
    /\ ~ret.val.d_space_closure.valid
    /\ "error" \in DOMAIN ret.val.energy_conservation

RECURSIVE standard_fibonacci(_)
\* the Fibonacci numbers by their recurrence
standard_fibonacci(n) ==
    IF n = 0 THEN 0
    ELSE IF n = 1 THEN 1
    ELSE standard_fibonacci(n - 1) + standard_fibonacci(n - 2)

\* C23: for every n >= 0, fib(n) is the Fibonacci number of the recurrence
\* fib(0) = 0, fib(1) = 1, fib(n) = fib(n-1) + fib(n-2), so fib(10) = 55;
\* fib(n) raises for n < 0.
C23_FibIsFibonacci ==
    (pc = "done" /\ op = "fib") =>
        /\ arg < 0 => ret.raised
        /\ arg >= 0 =>
              /\ ~ret.raised
              /\ ret.val = standard_fibonacci(arg)
              /\ arg >= 2 => ret.val = fib(arg - 1).val + fib(arg - 2).val
              /\ arg = 10 => ret.val = 55

C23_Witness ==
    /\ pc = "done" /\ op = "fib"
    /\ arg = 10
    /\ ~ret.raised
    /\ ret.val = 55

RECURSIVE standard_lucas(_)
\* the Lucas numbers by their recurrence, L(1) = 1 and L(2) = 3
standard_lucas(n) ==
    IF n = 1 THEN 1
    ELSE IF n = 2 THEN 3
    ELSE standard_lucas(n - 1) + standard_lucas(n - 2)

\* C24: for every n >= 1, lucas(n) is the n-th Lucas number (L(1) = 1,
\* L(2) = 3, L(n) = L(n-1) + L(n-2)); for 1 <= n <= 12 it is
\* LUCAS_NUMBERS[n-1], and the loop taken for n > 12 continues the table, so
\* the recurrence holds across n = 12, 13, 14.
C24_LucasIsLucas ==
    (pc = "done" /\ op = "lucas" /\ arg >= 1) =>
        /\ ~ret.raised
        /\ ret.val = standard_lucas(arg)
        /\ arg <= 12 => ret.val = LUCAS_NUMBERS[arg]
        /\ arg >= 3 => ret.val = lucas(arg - 1).val + lucas(arg - 2).val

\* the first index past the table
C24_Witness ==
    /\ pc = "done" /\ op = "lucas"
    /\ arg = Len(LUCAS_NUMBERS) + 1
    /\ ~ret.raised
    /\ ret.val = LUCAS_NUMBERS[12] + LUCAS_NUMBERS[11]

\* C25: mirror(mirror(v)) = v for every integer v, the ten anchor integers
\* among them, so mirror_symmetry(values) reports all_valid true with one
\* check per input, in input order, for every list of integers.
C25_MirrorIsInvolution ==
    (pc = "done" /\ op = "mirror_symmetry") =>
        /\ ~ret.raised
        /\ ret.val.all_valid
        /\ Len(ret.val.checks) = Len(arg)
        /\ \A i \in 1..Len(arg) :
              /\ ret.val.checks[i].value = arg[i]
              /\ ret.val.checks[i].mirror + arg[i] = MIRROR_CONSTANT
              /\ ret.val.checks[i].mirror_mirror = arg[i]
              /\ ret.val.checks[i].valid

\* an anchor integer and an integer above the mirror constant
C25_Witness ==
    /\ pc = "done" /\ op = "mirror_symmetry"
    /\ arg = <<BRAHIM_NUMBERS[1], MIRROR_CONSTANT + 1>>
    /\ ~ret.raised
    /\ ret.val.all_valid
    /\ ret.val.checks[2].mirror = 0 - 1

\* C26: for every integer n <= 0, fibonacci_factors(n) returns, without
\* raising, an empty list of factors and the residual n.
C26_NonPositiveHasNoFactors ==
    (pc = "done" /\ op = "fibonacci_factors" /\ arg <= 0) =>
        /\ ~ret.raised
        /\ ret.val.factors = <<>>
        /\ ret.val.residual = arg

C26_Witness ==
    /\ pc = "done" /\ op = "fibonacci_factors"
    /\ arg = 0 - NegN
    /\ ~ret.raised
    /\ ret.val.factors = <<>>
    /\ ret.val.residual = arg

\* ----------------------------------------------------------------
\* Properties of the engine's adapters.

\* the names registered so far, each once, in the order of first registration
first_registration_order(history) ==
    LET firsts == SelectSeq([i \in 1..Len(history) |-> [i |-> i, name |-> history[i].name]],
                            LAMBDA e : \A j \in 1..(e.i - 1) : history[j].name # e.name)
    IN [k \in 1..Len(firsts) |-> firsts[k].name]

\* C27: after any sequence of register_adapter and run calls, run(name, data)
\* returns the error record, without raising, exactly when no adapter has
\* ever been registered under name; otherwise it calls ingest on the data,
\* analyze on what ingest returned and report on what analyze returned, once
\* each and in this order, on the adapter most recently registered under
\* name, and returns what report returned; list_adapters holds each
\* registered name once, in first-registration order.
C27_RunDispatchesToLatestAdapter ==
    /\ (pc = "done" /\ op = "list_adapters") =>
          ret = Ok(first_registration_order(registrations))
    /\ (pc = "done" /\ op = "engine_run") =>
          LET mine == {i \in 1..Len(registrations) :
                          registrations[i].name = arg.adapter_name}
          IN /\ (ret = Ok([error |-> "Adapter not registered"])) <=> (mine = {})
             /\ mine = {} => calls = <<>>
             /\ mine # {} =>
                   LET latest == registrations[CHOOSE i \in mine :
                                                  \A j \in mine : j <= i].adapter
                   IN /\ Len(calls) = 3
                      /\ \A k \in 1..3 : calls[k].adapter = latest /\ ~calls[k].outcome.raised
                      /\ calls[1].method = "ingest" /\ calls[1].input = arg.data
                      /\ calls[2].method = "analyze"
                      /\ calls[2].input = calls[1].outcome.val
                      /\ calls[3].method = "report"
                      /\ calls[3].input = calls[2].outcome.val
                      /\ ret = calls[3].outcome

\* ----------------------------------------------------------------
\* Properties of sensor fusion.

\* a sensor without a valid reading: every reading is missing or not positive
NoValidReading(sensor) ==
    \A i \in 1..Len(GetOr(sensor, "readings", <<>>)) : FLeqZero(sensor.readings[i])

\* the list without its k-th element
WithoutIndex(s, k) == SubSeq(s, 1, k - 1) \o SubSeq(s, k + 1, Len(s))

\* C28: the fused estimate depends only on the sensors that have a valid
\* reading: a payload with a sensor whose readings are all missing or not
\* positive has the fused_d and the fused_value of the payload without that
\* sensor.
C28_DeadSensorChangesNothing ==
    (pc = "done" /\ op = "run" /\ arg.adapter = "sensor_fusion"
        /\ Len(GetOr(arg.data, "sensors", <<>>)) >= 2) =>
        \A k \in 1..Len(arg.data.sensors) :
            NoValidReading(arg.data.sensors[k]) =>
                LET without == engine_run("sensor_fusion",
                                          [arg.data EXCEPT !.sensors = WithoutIndex(@, k)])
                IN /\ ret.raised = without.raised
                   /\ ~ret.raised => ret.val.fused_estimate = without.val.fused_estimate

\* ----------------------------------------------------------------
\* The free tier of the demo.

\* the operations of a kind carried out for an e-mail on the days 1..day
RECURSIVE logged_until(_, _, _, _)
logged_until(rows, email, day, kind) ==
    IF day = 0 THEN 0
    ELSE (IF kind = "transform" THEN logged(rows, email, day).transform
          ELSE logged(rows, email, day).analysis)
         + logged_until(rows, email, day - 1, kind)

\* C29: a user without paid access, whose clicks on Transform and Calibrate
\* are handled one after the other, gets at most FREE_TRANSFORMS_PER_DAY
\* transforms and FREE_ANALYSES_PER_DAY analyses carried out on one calendar
\* day; a click is allowed exactly while the operations of its kind carried
\* out on the day are below the limit, and at the limit the answer of
\* check_rate_limit has remaining = 0; a new day starts the count at 0 again,
\* and the lifetime totals keep counting every operation of every day.
C29_FreeTierLimitPerDay ==
    /\ \A k \in DOMAIN performed :
          /\ performed[k].transform <= FREE_TRANSFORMS_PER_DAY
          /\ performed[k].analysis <= FREE_ANALYSES_PER_DAY
    /\ (pc = "done" /\ op \in {"Transform", "Calibrate"} /\ ~ret.raised) =>
          LET kind == IF op = "Transform" THEN "transform" ELSE "analysis"
              limit == IF op = "Transform" THEN FREE_TRANSFORMS_PER_DAY
                       ELSE FREE_ANALYSES_PER_DAY
              now == logged_until(performed, arg.email, today, kind)
                     - logged_until(performed, arg.email, today - 1, kind)
              before == IF ret.val.shown = "results" THEN now - 1 ELSE now
          IN /\ ret.val.rl.allowed <=> before < limit
             /\ before >= limit => ret.val.rl.remaining = 0
    /\ \A email \in DOMAIN users :
          /\ users[email].total_transforms = logged_until(performed, email, today, "transform")
          /\ users[email].total_analyses = logged_until(performed, email, today, "analysis")

\* ----------------------------------------------------------------
\* Payments of the demo.

\* the request passed Stripe's signature verification
passed_verification(secret, request) ==
    /\ secret # ""
    /\ request.well_formed
    /\ request.signed_with = secret

\* C30: has_paid_access(session_id) answers true exactly when a row of the
\* payments table of that session has the status 'completed'; and a webhook
\* request changes the payments table only when it passed Stripe's signature
\* verification, its type is checkout.session.completed and its
\* payment_status is 'paid', and then only by setting rows to 'completed'.
C30_PaidAccessOnlyByVerifiedWebhook ==
    [][/\ (pc = "idle" /\ op' = "has_paid_access") =>
             (ret'.val <=> \E i \in 1..Len(payments) :
                              /\ payments[i].session_id = arg'
                              /\ payments[i].payment_status = "completed")
       /\ (pc = "idle" /\ op' = "stripe_webhook") =>
             IF /\ passed_verification(webhook.WEBHOOK_SECRET, arg')
                /\ arg'.event.type = "checkout.session.completed"
                /\ arg'.event.payment_status = "paid"
             THEN /\ Len(payments') = Len(payments)
                  /\ \A i \in 1..Len(payments) :
                        \/ payments'[i] = payments[i]
                        \/ payments'[i] = [payments[i] EXCEPT !.payment_status = "completed"]
             ELSE payments' = payments]_vars

====
